---------------------------- MODULE Spec2Model ----------------------------
(***************************************************************************)
(* Gesture-Glide: the gesture recognition state machine                    *)
(* (src/src/gesture_detector.py) and the cursor mapping engine             *)
(* (src/src/cursor_controller.py, src/src/smoothing.py).                   *)
(*                                                                         *)
(* Units.  Landmark coordinates are integers counting 1/400 of the         *)
(* normalized image (0.0025), so that the detector's thresholds and the    *)
(* midpoint of two fingertips are whole numbers.  Detector time is in      *)
(* milliseconds (time.time() * 1000).                                      *)
(***************************************************************************)
EXTENDS Integers, Sequences, FiniteSets, TLC

Abs(x) == IF x < 0 THEN -x ELSE x

Min(a, b) == IF a < b THEN a ELSE b

Max(a, b) == IF a > b THEN a ELSE b

(***************************************************************************)
(* GestureDetector: configuration (defaults of __init__).                  *)
(***************************************************************************)
\* 2.0 cm * 0.01 = 0.02 = 8/400
pinch_thresh == 8

\* 2.5 cm * 0.01 = 0.025 = 10/400
three_finger_pinch_thresh == 10

click_debounce_ms == 100

drag_hold_ms == 200

zoom_debounce_ms == 50

scroll_debounce_ms == 100

\* 1.5 cm * 0.01 = 0.015 = 6/400
zoom_delta == 6

\* 0.03 = 12/400
scroll_delta_y == 12

scroll_delta_x == 12

(***************************************************************************)
(* Bounds of the model.                                                    *)
(***************************************************************************)
\* time.time() * 1000 at the first frame: far beyond every debounce window
EpochMs == 1000

\* wall-clock time between two processed frames is a multiple of TickMs
TickMs == 40

\* the drag runs process frames up to EpochMs + MaxTicks * TickMs
MaxTicks == 10

\* the click runs process frames up to EpochMs + ClickTicks * TickMs
ClickTicks == 5

\* the time between two frames of a cursor run, ms
FrameMs == 20

\* the number of update_position calls of a cursor run
MaxCalls == 2

\* the number of update_position calls of a relative run
MaxMoves == 4

\* the number of arbitrary samples of a filter run after a reset
MaxFeeds == 3

\* the number of equal samples in a row that a filter run may go on to
StreakLen == 70

ClickTypes == {"MIDDLE_CLICK", "RIGHT_CLICK", "LEFT_CLICK"}

DragEvents == {"DRAG_START", "DRAG_MOVE", "DRAG_END"}

ZoomEvents == {"ZOOM_IN", "ZOOM_OUT"}

ScrollEvents == {"SCROLL_UP", "SCROLL_DOWN", "SCROLL_LEFT", "SCROLL_RIGHT"}

\* the keys detect passes to _is_ready
TimerKeys == ClickTypes \cup {"ZOOM", "SCROLL"}

(***************************************************************************)
(* Landmark frames.  Only the four fingertips detect reads are kept:       *)
(* landmarks[4], [8], [12], [16], each <<x, y, z>>.  The hands of the      *)
(* model lie on a horizontal line, index and middle placed around the      *)
(* point (cx, cy), so every fingertip distance is a whole number.          *)
(***************************************************************************)
Hand(cx, cy, dTI, dIM, dMR) ==
    [thumb  |-> <<cx - (dIM \div 2) - dTI, cy, 0>>,
     index  |-> <<cx - (dIM \div 2), cy, 0>>,
     middle |-> <<cx + (dIM \div 2), cy, 0>>,
     ring   |-> <<cx + (dIM \div 2) + dMR, cy, 0>>]

\* thumb-index gaps: pinched, at ratio 0.5 of the open hand, open, wide open
ThumbGaps == {4, 10, 20}

\* index-middle and middle-ring gaps: pinched, inside the three-finger
\* threshold only, open
FingerGaps == {4, 8, 20}

\* where the midpoint of index and middle rests while the hand only pinches
RestX == 200

RestY == 200

\* the hands of the drag runs: every thumb gap, index-middle open or pinched
DragFrames ==
    {Hand(RestX, RestY, dTI, dIM, 20) : dTI \in ThumbGaps, dIM \in {4, 20}}

\* the hands of the click runs: thumb open, every finger gap
ClickFrames ==
    {Hand(RestX, RestY, 20, dIM, dMR) : dIM \in FingerGaps, dMR \in FingerGaps}

\* floor of the square root
RECURSIVE ISqrtFrom(_, _)
ISqrtFrom(n, x) ==
    LET y == (x + n \div x) \div 2
    IN  IF y >= x THEN x ELSE ISqrtFrom(n, y)

ISqrt(n) == IF n = 0 THEN 0 ELSE ISqrtFrom(n, n)

\* utils.euclidean_distance: the norm of the difference of two 3D points
euclidean_distance(p, q) ==
    ISqrt((p[1] - q[1]) * (p[1] - q[1]) + (p[2] - q[2]) * (p[2] - q[2])
          + (p[3] - q[3]) * (p[3] - q[3]))

thumb_index_dist(lm) == euclidean_distance(lm.thumb, lm.index)

index_middle_dist(lm) == euclidean_distance(lm.index, lm.middle)

middle_ring_dist(lm) == euclidean_distance(lm.middle, lm.ring)

all_three_pinch(lm) ==
    /\ index_middle_dist(lm) < three_finger_pinch_thresh
    /\ middle_ring_dist(lm) < three_finger_pinch_thresh

is_drag_pinch(lm) == thumb_index_dist(lm) < pinch_thresh

current_scroll_y(lm) == (lm.index[2] + lm.middle[2]) \div 2

current_scroll_x(lm) == (lm.index[1] + lm.middle[1]) \div 2

\* the two pairs whose pinch is a click, and the click of each
ClickPairs == {"IM", "MR"}

PairDist(p, lm) == IF p = "IM" THEN index_middle_dist(lm) ELSE middle_ring_dist(lm)

PairClick(p) == IF p = "IM" THEN "LEFT_CLICK" ELSE "RIGHT_CLICK"

(***************************************************************************)
(* CursorController (src/src/cursor_controller.py) and its filters         *)
(* (src/src/smoothing.py).  Normalized coordinates are numerators over     *)
(* NormDen, floats are held in fixed point with FP units to 1, the         *)
(* perf_counter clock is in ms, pixels are integers.  Products of fixed    *)
(* point numbers are rounded down, which is within one unit of the float.  *)
(***************************************************************************)
FP == 10 * 10 * 10

NormDen == FP

\* Optional values: None and a wrapped value
None == <<>>

Some(v) == <<v>>

\* floor(x * b / c) for b >= 0, c > 0, without forming x * b
MulDiv(x, b, c) == (x \div c) * b + ((x % c) * b) \div c

\* Python round() of a / b, b > 0: to the nearest integer, ties to even
RoundHalfEven(a, b) ==
    LET q == a \div b
        r == a % b
    IN  IF 2 * r < b THEN q
        ELSE IF 2 * r > b THEN q + 1
        ELSE IF q % 2 = 0 THEN q ELSE q + 1

\* Python int() of a fixed-point float: truncation toward zero
TruncInt(v) == IF v >= 0 THEN v \div FP ELSE -((-v) \div FP)

\* cursor_control defaults of CursorController.__init__
process_noise == 100

measurement_noise == 4000

sensitivity == 2400

acceleration == 1500

max_gain == 8000

min_gain == 100

low_speed_threshold == 150

low_speed_boost == 550

\* deadzone_norm, in NormDen units
deadz == 6

speed_multiplier == 1000

stabilizer_alpha == 250

\* display_refresh_seconds, in ms
refresh_ms == 5000

\* the floor of dt in update_position, in ms
min_dt_ms == 1

(***************************************************************************)
(* KalmanFilter1D: estimate is None or Some(fixed point); error_cov and    *)
(* the two noises are fixed point.                                         *)
(***************************************************************************)
KalmanFilter1D(pn, mn) ==
    [process_noise |-> pn, measurement_noise |-> mn,
     estimate |-> None, error_cov |-> FP]

\* a slip: the correction is subtracted
kalman_filter_inverted(f, m) ==
    IF f.estimate = None
    THEN [f EXCEPT !.estimate = Some(m), !.error_cov = FP]
    ELSE LET est  == f.estimate[1]
             pred == f.error_cov + f.process_noise
             K    == (pred * FP) \div (pred + f.measurement_noise)
         IN  [f EXCEPT !.estimate = Some(est - MulDiv(m - est, K, FP)),
                       !.error_cov = MulDiv(pred, FP - K, FP)]

\* a slip: the prediction step adds no process noise
kalman_filter_no_process_noise(f, m) ==
    IF f.estimate = None
    THEN [f EXCEPT !.estimate = Some(m), !.error_cov = FP]
    ELSE LET est  == f.estimate[1]
             pred == f.error_cov
             K    == (pred * FP) \div (pred + f.measurement_noise)
         IN  [f EXCEPT !.estimate = Some(est + MulDiv(m - est, K, FP)),
                       !.error_cov = MulDiv(pred, FP - K, FP)]

\* KalmanFilter1D.filter: the filter after the call; it returns the estimate
kalman_filter(f, m) ==
    IF f.estimate = None
    THEN [f EXCEPT !.estimate = Some(m), !.error_cov = FP]
    ELSE LET est  == f.estimate[1]
             pred == f.error_cov + f.process_noise
             K    == (pred * FP) \div (pred + f.measurement_noise)
         IN  [f EXCEPT !.estimate = Some(est + MulDiv(m - est, K, FP)),
                       !.error_cov = MulDiv(pred, FP - K, FP)]

\* a slip: reset keeps the error covariance
kalman_reset_keeps_cov(f, value) == [f EXCEPT !.estimate = value]

\* KalmanFilter1D.reset(value), value None when the call gives none
kalman_reset(f, value) == [f EXCEPT !.estimate = value, !.error_cov = FP]

\* EMAFilter1D.reset(value) on the filter's value: the value after
ema_reset(value) == value

\* MovingAverageFilter.__init__: buffer is the deque, oldest sample first
MovingAverageFilter(window_size) ==
    [window_size |-> Max(1, window_size), buffer |-> <<>>, sum |-> 0]

\* a slip: the evicted sample stays in the running sum
ma_filter_keeps_sum(f, x) ==
    LET full == Len(f.buffer) = f.window_size
    IN  [f EXCEPT !.buffer = (IF full THEN Tail(@) ELSE @) \o <<x>>,
                  !.sum = @ + x]

\* MovingAverageFilter.filter: the filter after the call
ma_filter(f, x) ==
    LET full == Len(f.buffer) = f.window_size
    IN  [f EXCEPT !.buffer = (IF full THEN Tail(@) ELSE @) \o <<x>>,
                  !.sum = (IF full THEN @ - f.buffer[1] ELSE @) + x]

\* what MovingAverageFilter.filter returned: the running sum over the length
ma_output(f) == f.sum \div Len(f.buffer)

\* MovingAverageFilter.reset()
ma_reset(f) == [f EXCEPT !.buffer = <<>>, !.sum = 0]

\* EMAFilter1D.filter on the filter's value (None or Some): the value after
ema_filter(value, x) ==
    IF value = None
    THEN Some(x)
    ELSE Some(MulDiv(x, stabilizer_alpha, FP)
                + MulDiv(value[1], FP - stabilizer_alpha, FP))

(***************************************************************************)
(* Display geometry.                                                       *)
(***************************************************************************)
Monitor(x, y, w, h) == [x |-> x, y |-> y, width |-> w, height |-> h]

SetMin(S) == CHOOSE m \in S : \A n \in S : m <= n

SetMax(S) == CHOOSE m \in S : \A n \in S : m >= n

Geometry(ox, oy, w, h, offx, offy) ==
    [origin_x |-> ox, origin_y |-> oy, screen_width |-> w, screen_height |-> h,
     coord_offset_x |-> offx, coord_offset_y |-> offy]

\* a slip: no offset is ever applied
normalize_offsets_none(os, ox, oy) == <<0, 0>>

\* CursorController._normalize_offsets_for_os
normalize_offsets_for_os(os, ox, oy) ==
    IF os = "Linux" /\ (ox < 0 \/ oy < 0) THEN <<-ox, -oy>> ELSE <<0, 0>>

\* a slip: the size of the box is that of its largest monitor
bounding_box_largest(os, mons, normalize) ==
    LET min_x == SetMin({m.x : m \in mons})
        min_y == SetMin({m.y : m \in mons})
        off   == IF normalize THEN normalize_offsets_for_os(os, min_x, min_y)
                              ELSE <<0, 0>>
    IN  Geometry(min_x, min_y, SetMax({m.width : m \in mons}),
                 SetMax({m.height : m \in mons}), off[1], off[2])

\* the union bounding box of a set of monitors, with the platform's offsets
bounding_box(os, mons, normalize) ==
    LET min_x == SetMin({m.x : m \in mons})
        min_y == SetMin({m.y : m \in mons})
        max_x == SetMax({m.x + m.width : m \in mons})
        max_y == SetMax({m.y + m.height : m \in mons})
        off   == IF normalize THEN normalize_offsets_for_os(os, min_x, min_y)
                              ELSE <<0, 0>>
    IN  Geometry(min_x, min_y, max_x - min_x, max_y - min_y, off[1], off[2])

\* a slip: pyautogui's size is taken before the monitor lists are tried
detect_size_first(os, probe) ==
    IF probe.size # None
    THEN Geometry(0, 0, probe.size[1][1], probe.size[1][2], 0, 0)
    ELSE IF probe.mons # {} THEN bounding_box(os, probe.mons, TRUE)
    ELSE IF probe.native # {}
    THEN bounding_box(os, probe.native, os = "Linux")
    ELSE Geometry(0, 0, 1920, 1080, 0, 0)

\* CursorController._detect_virtual_screen.  A probe says what each source
\* answers: mons (screeninfo; {} when missing, failing or empty), native
\* (GetSystemMetrics on Windows, xrandr on Linux; {} when failing) and size
\* (pyautogui.size(); None when failing).
detect_virtual_screen(os, probe) ==
    IF probe.mons # {} THEN bounding_box(os, probe.mons, TRUE)
    ELSE IF os = "Windows" /\ probe.native # {}
    THEN bounding_box(os, probe.native, FALSE)
    ELSE IF os = "Linux" /\ probe.native # {}
    THEN bounding_box(os, probe.native, TRUE)
    ELSE IF probe.size # None
    THEN Geometry(0, 0, probe.size[1][1], probe.size[1][2], 0, 0)
    ELSE Geometry(0, 0, 1920, 1080, 0, 0)

\* CursorController.__init__ without explicit geometry, as the application
\* constructs it: detected geometry, Kalman filters, no relative state
CursorController(os, relative, g) ==
    [os |-> os, use_relative |-> relative,
     origin_x |-> g.origin_x, origin_y |-> g.origin_y,
     screen_width |-> g.screen_width, screen_height |-> g.screen_height,
     coord_offset_x |-> g.coord_offset_x, coord_offset_y |-> g.coord_offset_y,
     filter_x |-> KalmanFilter1D(process_noise, measurement_noise),
     filter_y |-> KalmanFilter1D(process_noise, measurement_noise),
     ema_dx |-> None, ema_dy |-> None,
     last_detect_ts |-> 0,
     last_norm_x |-> None, last_norm_y |-> None,
     last_abs_x |-> None, last_abs_y |-> None, last_ts |-> None]

\* CursorController.__init__ with the arguments screen_width (w),
\* screen_height (h), origin_x, origin_y, each None when not given: the
\* explicit geometry is taken only when all four are given
CursorControllerWith(os, relative, w, h, origin_x, origin_y, g) ==
    IF w = None \/ h = None \/ origin_x = None \/ origin_y = None
    THEN CursorController(os, relative, g)
    ELSE CursorController(os, relative,
                          Geometry(origin_x[1], origin_y[1], w[1], h[1], 0, 0))

\* the geometry fields of a controller
GeometryOf(c) ==
    Geometry(c.origin_x, c.origin_y, c.screen_width, c.screen_height,
             c.coord_offset_x, c.coord_offset_y)

\* _clip_to_bounds: the bounds of one axis
MinX(c) == c.origin_x + c.coord_offset_x

MaxX(c) == c.origin_x + c.coord_offset_x + c.screen_width - 1

MinY(c) == c.origin_y + c.coord_offset_y

MaxY(c) == c.origin_y + c.coord_offset_y + c.screen_height - 1

\* CursorController._clip_to_bounds
clip_to_bounds(c, x, y) ==
    <<Min(MaxX(c), Max(MinX(c), x)), Min(MaxY(c), Max(MinY(c), y))>>

\* a slip: the pixel index is rounded down
map_normalized_to_screen_floor(c, nx, ny, den) ==
    LET cx == Min(den, Max(0, nx))
        cy == Min(den, Max(0, ny))
        x  == c.origin_x + (cx * (c.screen_width - 1)) \div den
                + c.coord_offset_x
        y  == c.origin_y + (cy * (c.screen_height - 1)) \div den
                + c.coord_offset_y
    IN  clip_to_bounds(c, x, y)

\* CursorController._map_normalized_to_screen of (nx / den, ny / den)
map_normalized_to_screen(c, nx, ny, den) ==
    LET cx == Min(den, Max(0, nx))
        cy == Min(den, Max(0, ny))
        x  == c.origin_x + RoundHalfEven(cx * (c.screen_width - 1), den)
                + c.coord_offset_x
        y  == c.origin_y + RoundHalfEven(cy * (c.screen_height - 1), den)
                + c.coord_offset_y
    IN  clip_to_bounds(c, x, y)

\* CursorController._maybe_refresh_virtual_screen at clock t, g the geometry
\* that _detect_virtual_screen returns if it is called
maybe_refresh_virtual_screen(c, t, g) ==
    IF t - c.last_detect_ts < refresh_ms
    THEN c
    ELSE LET c1 == [c EXCEPT !.last_detect_ts = t]
         IN  IF g # GeometryOf(c)
             THEN LET c2 == [c1 EXCEPT
                               !.origin_x = g.origin_x,
                               !.origin_y = g.origin_y,
                               !.screen_width = g.screen_width,
                               !.screen_height = g.screen_height,
                               !.coord_offset_x = g.coord_offset_x,
                               !.coord_offset_y = g.coord_offset_y]
                  IN  IF c2.last_abs_x # None /\ c2.last_abs_y # None
                      THEN LET p == clip_to_bounds(c2, c2.last_abs_x[1],
                                                   c2.last_abs_y[1])
                           IN  [c2 EXCEPT !.last_abs_x = Some(p[1]),
                                          !.last_abs_y = Some(p[2])]
                      ELSE c2
             ELSE c1

\* CursorController._seed_relative_state at clock t
seed_relative_state(c, nx, ny, x_abs, y_abs, t) ==
    [c EXCEPT !.last_norm_x = Some(nx), !.last_norm_y = Some(ny),
              !.last_abs_x = Some(x_abs), !.last_abs_y = Some(y_abs),
              !.last_ts = Some(t),
              !.ema_dx = ema_reset(Some(0)), !.ema_dy = ema_reset(Some(0)),
              !.filter_x = kalman_filter(kalman_reset(@, None), x_abs * FP),
              !.filter_y = kalman_filter(kalman_reset(@, None), y_abs * FP)]

\* the centre that _current_pointer_or_center falls back to
Center(c) ==
    <<c.origin_x + c.screen_width \div 2, c.origin_y + c.screen_height \div 2>>

\* CursorController._current_pointer_or_center, pointer what
\* pyautogui.position() answers (None when missing or failing)
current_pointer_or_center(c, pointer) ==
    IF pointer # None THEN pointer[1] ELSE Center(c)

\* speed ** accel_exponent (1.4) for speeds 0, 0.05 .. 1.40, fixed point
PowTable ==
    <<0, 15, 40, 70, 105, 144, 185, 230, 277, 327, 379, 433, 489, 547, 607,
      668, 732, 797, 863, 931, 1000, 1071, 1143, 1216, 1291, 1367, 1444,
      1522, 1602>>

PowStep == 50

\* speed ** accel_exponent by linear interpolation in PowTable; from the
\* table's last speed on the gain is max_gain whatever the power is
pow_accel(speed) ==
    LET i == speed \div PowStep
    IN  IF i + 1 >= Len(PowTable)
        THEN PowTable[Len(PowTable)]
        ELSE PowTable[i + 1]
               + ((PowTable[i + 2] - PowTable[i + 1]) * (speed % PowStep))
                   \div PowStep

\* update_position: the gain at normalized speed speed (per second)
gain_at(speed) ==
    LET g1 == IF acceleration > 0
              THEN MulDiv(sensitivity,
                          FP + MulDiv(acceleration, pow_accel(speed), FP), FP)
              ELSE sensitivity
        g2 == IF speed < low_speed_threshold
              THEN MulDiv(g1, low_speed_boost, FP) ELSE g1
        g3 == MulDiv(g2, speed_multiplier, FP)
    IN  Min(max_gain, Max(min_gain, g3))

\* a slip: no deadzone
deadzone_none(d) == d

\* update_position: the deadzone on one axis
deadzone(d) == IF Abs(d) < deadz THEN 0 ELSE d

\* update_position, absolute mode
absolute_position(c, nx, ny, t) ==
    LET m  == map_normalized_to_screen(c, nx, ny, NormDen)
        fx == kalman_filter(c.filter_x, m[1] * FP)
        fy == kalman_filter(c.filter_y, m[2] * FP)
        p  == clip_to_bounds(c, TruncInt(fx.estimate[1]),
                             TruncInt(fy.estimate[1]))
        c1 == [c EXCEPT !.filter_x = fx, !.filter_y = fy]
    IN  [c |-> seed_relative_state(c1, nx, ny, p[1], p[2], t), out |-> p]

\* update_position, relative mode without a previous sample: seed and return
\* the pointer (or the centre)
relative_seed(c, nx, ny, t, pointer) ==
    LET p == current_pointer_or_center(c, pointer)
    IN  [c |-> seed_relative_state(c, nx, ny, p[1], p[2], t), out |-> p]

\* update_position, relative mode with a previous sample
relative_move(c, nx, ny, t, pointer) ==
    LET lt   == IF c.last_ts = None \/ c.last_ts[1] = 0 THEN t
                ELSE c.last_ts[1]
        dt   == Max(min_dt_ms, t - lt)
        dx_n == deadzone(nx - c.last_norm_x[1])
        dy_n == deadzone(ny - c.last_norm_y[1])
    IN  IF dx_n = 0 /\ dy_n = 0
        THEN IF c.last_abs_x = None \/ c.last_abs_y = None
             THEN relative_seed(c, nx, ny, t, pointer)
             ELSE [c |-> c, out |-> <<c.last_abs_x[1], c.last_abs_y[1]>>]
        ELSE LET speed == (ISqrt(dx_n * dx_n + dy_n * dy_n) * FP) \div dt
                 gain  == gain_at(speed)
                 ex    == ema_filter(c.ema_dx,
                              MulDiv(dx_n * (c.screen_width - 1), gain, NormDen))
                 ey    == ema_filter(c.ema_dy,
                              MulDiv(dy_n * (c.screen_height - 1), gain, NormDen))
                 base  == <<IF c.last_abs_x # None THEN c.last_abs_x[1]
                                                    ELSE Center(c)[1],
                            IF c.last_abs_y # None THEN c.last_abs_y[1]
                                                    ELSE Center(c)[2]>>
                 fx    == kalman_filter(c.filter_x, base[1] * FP + ex[1])
                 fy    == kalman_filter(c.filter_y, base[2] * FP + ey[1])
                 p     == clip_to_bounds(c, TruncInt(fx.estimate[1]),
                                         TruncInt(fy.estimate[1]))
             IN  [c |-> [c EXCEPT !.ema_dx = ex, !.ema_dy = ey,
                                  !.filter_x = fx, !.filter_y = fy,
                                  !.last_norm_x = Some(nx),
                                  !.last_norm_y = Some(ny),
                                  !.last_abs_x = Some(p[1]),
                                  !.last_abs_y = Some(p[2]),
                                  !.last_ts = Some(t)],
                  out |-> p]

\* CursorController.update_position on the middle fingertip (mx, my) at clock
\* t; g and pointer are what the display probe and pyautogui.position()
\* answer if asked
update_position(c0, mx, my, t, g, pointer) ==
    LET c  == maybe_refresh_virtual_screen(c0, t, g)
        nx == NormDen - mx
        ny == my
    IN  IF ~c.use_relative
        THEN absolute_position(c, nx, ny, t)
        ELSE IF c.last_norm_x = None \/ c.last_norm_y = None
        THEN relative_seed(c, nx, ny, t, pointer)
        ELSE relative_move(c, nx, ny, t, pointer)

VARIABLES
    now,              \* wall clock of the last processed frame, ms
    gesture_timers,   \* GestureDetector.gesture_timers (absent key = 0)
    last_landmarks,   \* <<>> for None, else <<frame>>
    drag_state,       \* "RELEASED" | "HELD" | "DRAGGING"
    drag_start_time,
    last_zoom_dist,
    last_scroll_y,
    last_scroll_x,
    gesture,          \* what the last detect call returned ("NONE" for None)
    \* history of the run, read by the properties only
    epStart,          \* time of the first frame of the last thumb-index pinch
    epPost,           \* its pinched frames later than drag_hold_ms after epStart
    epLog,            \* the drag events returned since epStart, in order
    pinchSince,       \* per pair: first frame of its present pinch (0: open)
    lastClick,        \* per click type: when it was last returned (0: never)
    heldClicks,       \* per pair: its clicks returned during the present pinch
    lastScroll        \* when a scroll event was last returned (0: never)

VARIABLES
    cursor,           \* the CursorController object
    perf,             \* time.perf_counter() at the last update_position, ms
    display,          \* the display layout in use, an index of Layouts
    monitors,         \* the monitor rectangles of the desktop at present
    locals,           \* of the calls under way: the geometry that
                      \* _maybe_refresh_virtual_screen is storing (g) and
                      \* how many of its fields it has stored, and the
                      \* controller fields draw_visualizations has read
    pos,              \* what the last update_position returned (None: none)
    middle,           \* the middle fingertip it was called with
    ucalls,           \* the number of update_position calls so far
    \* history of the cursor run, read by the properties only
    lastSign,         \* per axis: sign of the last call's displacement (0:
                      \* none, a seeding call or one within the deadzone)
    runSign,          \* per axis: 0 right after seeding, 1 or -1 while every
                      \* call since had a displacement of that sign, 2 else
    ctor              \* the geometry arguments of the constructor call, None
                      \* when it was called without any

gdVars == <<now, gesture_timers, last_landmarks, drag_state, drag_start_time,
            last_zoom_dist, last_scroll_y, last_scroll_x, gesture>>

histVars == <<epStart, epPost, epLog, pinchSince, lastClick, heldClicks,
              lastScroll>>

\* no call of the controller or of draw_visualizations is under way
NoLocals == [g |-> <<>>, stored |-> 0, read |-> <<>>]

ccVars == <<cursor, perf, display, monitors, locals, pos, middle, ucalls>>

ccHist == <<lastSign, runSign, ctor>>

VARIABLES
    kf,               \* a KalmanFilter1D
    maf,              \* a MovingAverageFilter
    emaf,             \* the value of an EMAFilter1D (alpha stabilizer_alpha)
    fin,              \* the sample of the last filter calls (None: none)
    fout,             \* what the last filter calls returned (None: none)
    \* history of the filter run, read by the properties only
    lastOp,           \* "new", "reset" (no value), "reset_to" or "filter"
    recent,           \* the last samples since the reset, at most MaxWindow
    nfed,             \* the number of samples since the reset
    streak            \* the number of equal samples in a row, the last included

filtVars == <<kf, maf, emaf, fin, fout>>

filtHist == <<lastOp, recent, nfed, streak>>

VARIABLES
    action_queue,     \* GestureGlideApp.action_queue: (gesture, cursor_pos)
                      \* bundles, oldest first
    returned,         \* what the last process_frame call returned: None for
                      \* (None, None, None), else the gesture and cursor_pos
    \* history of the pipeline run, read by the properties only
    top,              \* the highest confidence among the hands of the last
                      \* frame (0: no hand)
    dcalls            \* the number of detect calls made by process_frame

VARIABLES
    running,          \* GestureGlideApp.running, the shared flag
    is_paused,        \* GestureGlideApp.is_paused
    pc,               \* per thread: where it stands ("done": it has returned;
                      \* "failed": it has ended on an exception)
    process_queue,    \* frames from the capture stage, oldest first; a frame
                      \* is what HandTracker.detect finds in it
    display_queue,    \* bundles for the display stage, oldest first
    camera,           \* the frames the camera has yet to deliver
    missing,          \* the configuration keys absent from config.yaml
    frame,            \* the frame the process thread holds (None: none)
    bundle,           \* the bundle the mouse thread took last, to execute it
                      \* (None: none yet)
    sink,             \* the pyautogui calls made for the last bundle executed,
                      \* in order, each <<function, arguments>>
    drag_active,      \* MouseActions.drag_active
    \* history of the thread run, read by the properties only
    tags,             \* per bundle of the action queue: is_paused when it
                      \* was put
    taken             \* the same, of the bundle the mouse thread took last

thVars == <<running, is_paused, pc, process_queue, display_queue, camera,
            missing, frame, bundle, sink, drag_active, tags, taken>>

\* the variables of the action stage
mouseVars == <<bundle, sink, drag_active, tags, taken>>

\* MouseActions.__init__, and the action stage before its first bundle
IdleMouse ==
    /\ bundle = None
    /\ sink = <<>>
    /\ drag_active = FALSE
    /\ tags = <<>>
    /\ taken = FALSE

Threads == {"capture", "process", "mouse", "display"}

\* the four threads and run(), which starts them
Runners == Threads \cup {"main"}

\* the thread variables while no thread runs
IdleThreads ==
    /\ running = FALSE
    /\ is_paused = FALSE
    /\ pc = [th \in Runners |-> "done"]
    /\ process_queue = <<>>
    /\ display_queue = <<>>
    /\ camera = <<>>
    /\ missing = {}
    /\ frame = None
    /\ IdleMouse

plVars == <<action_queue, returned, top, dcalls, thVars>>

vars == <<gdVars, histVars, ccVars, ccHist, filtVars, filtHist, plVars>>

\* the pipeline variables while a component runs by itself
IdlePipeline ==
    /\ action_queue = <<>>
    /\ returned = None
    /\ top = 0
    /\ dcalls = 0
    /\ IdleThreads

(***************************************************************************)
(* GestureDetector._is_ready: the debounce test, and the timer it stamps   *)
(* when the test passes.  The clock read inside _is_ready is taken to be   *)
(* the frame's clock read (they are microseconds apart).                   *)
(***************************************************************************)
\* a slip: the debounce window is not compared at all
debounce_ignored(last_time, debounce_ms, t) == t > last_time

debounce_passed(last_time, debounce_ms, t) == (t - last_time) > debounce_ms

\* a slip: an absent timer defaults to the present time
is_ready_default_now(timers, g, debounce_ms, t) ==
    LET last == IF timers[g] = 0 THEN t ELSE timers[g]
        ok   == debounce_passed(last, debounce_ms, t)
    IN  [ok |-> ok, timers |-> IF ok \/ timers[g] = 0
                               THEN [timers EXCEPT ![g] = t] ELSE timers]

is_ready(timers, g, debounce_ms, t) ==
    LET ok == debounce_passed(timers[g], debounce_ms, t)
    IN  [ok |-> ok, timers |-> IF ok THEN [timers EXCEPT ![g] = t] ELSE timers]

\* the detector's fields, with the local variable gesture of detect
GDState ==
    [gesture_timers |-> gesture_timers, last_landmarks |-> last_landmarks,
     drag_state |-> drag_state, drag_start_time |-> drag_start_time,
     last_zoom_dist |-> last_zoom_dist, last_scroll_y |-> last_scroll_y,
     last_scroll_x |-> last_scroll_x, gesture |-> "NONE"]

\* a slip: the hold time is measured from 0, not from the pinch
hold_elapsed_from_zero(start, t) == t > drag_hold_ms

\* detect: has the pinch been held for more than the hold threshold?
hold_elapsed(start, t) == (t - start) > drag_hold_ms

\* detect, drag state RELEASED
Released(s, pinch, t) ==
    IF pinch
    THEN [s EXCEPT !.drag_state = "HELD", !.drag_start_time = t]
    ELSE s

\* a slip: the hold passes into the drag without reporting its start
Held_silent_start(s, pinch, d, t) ==
    IF ~pinch
    THEN [s EXCEPT !.drag_state = "RELEASED", !.last_zoom_dist = d]
    ELSE IF hold_elapsed(s.drag_start_time, t)
         THEN [s EXCEPT !.drag_state = "DRAGGING"]
         ELSE s

\* detect, drag state HELD, d the thumb-index distance of the frame
Held(s, pinch, d, t) ==
    IF ~pinch
    THEN LET zd  == d - s.last_zoom_dist
             big == s.last_landmarks # <<>> /\ Abs(zd) > zoom_delta
             r   == is_ready(s.gesture_timers, "ZOOM", zoom_debounce_ms, t)
         IN  [s EXCEPT
                !.drag_state = "RELEASED",
                !.gesture_timers = IF big THEN r.timers ELSE @,
                !.gesture = IF big /\ r.ok
                            THEN (IF zd < 0 THEN "ZOOM_IN" ELSE "ZOOM_OUT")
                            ELSE "NONE",
                !.last_zoom_dist = d]
    ELSE IF hold_elapsed(s.drag_start_time, t)
         THEN [s EXCEPT !.drag_state = "DRAGGING", !.gesture = "DRAG_START"]
         ELSE s

\* a slip: the release returns DRAG_END and leaves the state DRAGGING
Dragging_keeps_state(s, pinch) ==
    [s EXCEPT !.gesture = IF pinch THEN "DRAG_MOVE" ELSE "DRAG_END"]

\* detect, drag state DRAGGING
Dragging(s, pinch) ==
    IF ~pinch
    THEN [s EXCEPT !.drag_state = "RELEASED", !.gesture = "DRAG_END"]
    ELSE [s EXCEPT !.gesture = "DRAG_MOVE"]

\* detect, "1. Check for Drag state (Thumb + Index)"
DragMachine(s, lm, t) ==
    LET pinch == is_drag_pinch(lm)
    IN  CASE s.drag_state = "RELEASED" -> Released(s, pinch, t)
          [] s.drag_state = "HELD" -> Held(s, pinch, thumb_index_dist(lm), t)
          [] s.drag_state = "DRAGGING" -> Dragging(s, pinch)

\* one branch of the click chain: the gesture fires when its debounce passed
Click(s, g, t) ==
    LET r == is_ready(s.gesture_timers, g, click_debounce_ms, t)
    IN  [s EXCEPT !.gesture_timers = r.timers,
                  !.gesture = IF r.ok THEN g ELSE "NONE"]

\* a slip: the horizontal displacement is tested before the vertical one
Scroll_horizontal_first(s, lm, t) ==
    IF s.last_landmarks = <<>>
    THEN s
    ELSE LET dy == current_scroll_y(lm) - s.last_scroll_y
             dx == current_scroll_x(lm) - s.last_scroll_x
             r  == is_ready(s.gesture_timers, "SCROLL", scroll_debounce_ms, t)
         IN  IF Abs(dx) > scroll_delta_x /\ r.ok
             THEN [s EXCEPT !.gesture_timers = r.timers,
                            !.gesture = IF dx > 0 THEN "SCROLL_RIGHT"
                                                  ELSE "SCROLL_LEFT"]
             ELSE IF Abs(dy) > scroll_delta_y /\ r.ok
             THEN [s EXCEPT !.gesture_timers = r.timers,
                            !.gesture = IF dy > 0 THEN "SCROLL_DOWN"
                                                  ELSE "SCROLL_UP"]
             ELSE s

\* detect, the scroll branch (vertical first, then horizontal)
Scroll(s, lm, t) ==
    IF s.last_landmarks = <<>>
    THEN s
    ELSE LET dy == current_scroll_y(lm) - s.last_scroll_y
             dx == current_scroll_x(lm) - s.last_scroll_x
             r  == is_ready(s.gesture_timers, "SCROLL", scroll_debounce_ms, t)
         IN  IF Abs(dy) > scroll_delta_y /\ r.ok
             THEN [s EXCEPT !.gesture_timers = r.timers,
                            !.gesture = IF dy > 0 THEN "SCROLL_DOWN"
                                                  ELSE "SCROLL_UP"]
             ELSE IF Abs(dx) > scroll_delta_x /\ r.ok
             THEN [s EXCEPT !.gesture_timers = r.timers,
                            !.gesture = IF dx > 0 THEN "SCROLL_RIGHT"
                                                  ELSE "SCROLL_LEFT"]
             ELSE s

\* a slip: the two-finger clicks are tested before the three-finger pinch
ClickScroll_left_first(s, lm, t) ==
    IF s.drag_state # "DRAGGING" /\ s.gesture = "NONE"
    THEN IF index_middle_dist(lm) < pinch_thresh
         THEN Click(s, "LEFT_CLICK", t)
         ELSE IF middle_ring_dist(lm) < pinch_thresh
         THEN Click(s, "RIGHT_CLICK", t)
         ELSE IF all_three_pinch(lm)
         THEN Click(s, "MIDDLE_CLICK", t)
         ELSE Scroll(s, lm, t)
    ELSE s

\* a slip: a click replaces the event of the drag machine
ClickScroll_over_drag(s, lm, t) ==
    IF all_three_pinch(lm)
    THEN Click(s, "MIDDLE_CLICK", t)
    ELSE IF middle_ring_dist(lm) < pinch_thresh
    THEN Click(s, "RIGHT_CLICK", t)
    ELSE IF index_middle_dist(lm) < pinch_thresh
    THEN Click(s, "LEFT_CLICK", t)
    ELSE IF s.drag_state # "DRAGGING" /\ s.gesture = "NONE"
    THEN Scroll(s, lm, t)
    ELSE s

\* detect, "2. If not dragging, check for other click/scroll gestures"
ClickScroll(s, lm, t) ==
    IF s.drag_state # "DRAGGING" /\ s.gesture = "NONE"
    THEN IF all_three_pinch(lm)
         THEN Click(s, "MIDDLE_CLICK", t)
         ELSE IF middle_ring_dist(lm) < pinch_thresh
         THEN Click(s, "RIGHT_CLICK", t)
         ELSE IF index_middle_dist(lm) < pinch_thresh
         THEN Click(s, "LEFT_CLICK", t)
         ELSE Scroll(s, lm, t)
    ELSE s

\* detect, "Update last known values for next frame's delta calculation"
Remember(s, lm) ==
    [s EXCEPT !.last_zoom_dist = IF ~is_drag_pinch(lm)
                                 THEN thumb_index_dist(lm) ELSE @,
              !.last_scroll_y = current_scroll_y(lm),
              !.last_scroll_x = current_scroll_x(lm),
              !.last_landmarks = <<lm>>]

\* GestureDetector.detect at wall-clock time t
detect(s, lm, t) == Remember(ClickScroll(DragMachine(s, lm, t), lm, t), lm)

\* GestureDetector.__init__, and an empty history
FreshDetector ==
    /\ now = EpochMs
    /\ gesture_timers = [g \in TimerKeys |-> 0]
    /\ last_landmarks = <<>>
    /\ drag_state = "RELEASED"
    /\ drag_start_time = 0
    /\ last_zoom_dist = 0
    /\ last_scroll_y = 0
    /\ last_scroll_x = 0
    /\ gesture = "NONE"
    /\ epStart = 0
    /\ epPost = 0
    /\ epLog = <<>>
    /\ pinchSince = [p \in ClickPairs |-> 0]
    /\ lastClick = [g \in ClickTypes |-> 0]
    /\ heldClicks = [p \in ClickPairs |-> 0]
    /\ lastScroll = 0

(***************************************************************************)
(* The cursor runs: a controller constructed as the application does it,   *)
(* on a platform and a display layout, and update_position calls on        *)
(* middle-fingertip samples.                                               *)
(***************************************************************************)
\* the middle fingertips of the cursor runs, (x, y) over NormDen: the
\* corners, the centre, a sample within the deadzone of the centre, and one
\* outside [0,1] on both axes
Points == {<<0, 0>>, <<NormDen, NormDen>>, <<NormDen \div 2, NormDen \div 2>>,
           <<NormDen \div 2 - deadz \div 2, NormDen \div 2>>,
           <<NormDen + NormDen \div 2, -(NormDen \div 2)>>}

\* the time between two update_position calls: a frame, or a refresh interval
PerfSteps == {FrameMs, refresh_ms}

OSNames == {"Linux", "Windows"}

\* the display layouts: one monitor; a second one to the left of it; a
\* smaller primary monitor with a larger one to the left of it
Layouts ==
    <<{Monitor(0, 0, 1920, 1080)},
      {Monitor(-1920, 0, 1920, 1080), Monitor(0, 0, 1920, 1080)},
      {Monitor(-1920, 0, 1920, 1080), Monitor(0, 0, 1280, 1024)}>>

\* the primary monitor of a layout
Primary(L) == CHOOSE m \in L : m.x = 0 /\ m.y = 0

\* what the sources of _detect_virtual_screen can answer on a layout: each
\* source works or fails, the later ones matter only when the earlier fail
Probes(L) ==
    LET size == Some(<<Primary(L).width, Primary(L).height>>)
    IN  {[mons |-> L, native |-> L, size |-> size],
         [mons |-> {}, native |-> L, size |-> size],
         [mons |-> {}, native |-> {}, size |-> size],
         [mons |-> {}, native |-> {}, size |-> None]}

\* what pyautogui.position() can answer: nothing, or a corner of the desktop
\* in the platform's pointer coordinates (from 0 on Linux)
Pointers(os, L) ==
    LET b == bounding_box(os, L, TRUE)
        x == b.origin_x + b.coord_offset_x
        y == b.origin_y + b.coord_offset_y
    IN  {None, Some(<<x, y>>),
         Some(<<x + b.screen_width - 1, y + b.screen_height - 1>>)}

\* the largest window of the filter runs
MaxWindow == 3

\* fresh filters: a Kalman filter with process noise pn, a moving average
\* over w samples, an EMA
FreshFilters(pn, w) ==
    /\ kf = KalmanFilter1D(pn, measurement_noise)
    /\ maf = MovingAverageFilter(w)
    /\ emaf = None
    /\ fin = None
    /\ fout = None
    /\ lastOp = "new"
    /\ recent = <<>>
    /\ nfed = 0
    /\ streak = 0

\* the filter variables while other components run
IdleFilters == FreshFilters(process_noise, MaxWindow)

\* the cursor variables while the gesture detector runs
IdleCursor ==
    /\ cursor = CursorController("Linux", TRUE,
                                 detect_virtual_screen("Linux",
                                     [mons |-> {}, native |-> {},
                                      size |-> None]))
    /\ perf = 0
    /\ display = 1
    /\ monitors = Layouts[1]
    /\ locals = NoLocals
    /\ pos = None
    /\ middle = None
    /\ ucalls = 0
    /\ lastSign = <<0, 0>>
    /\ runSign = <<0, 0>>
    /\ ctor = None

InitGD == FreshDetector /\ IdleCursor /\ IdleFilters /\ IdlePipeline

\* the thumb-index pair was pinched in the last processed frame
WasDragPinch == last_landmarks # <<>> /\ is_drag_pinch(last_landmarks[1])

\* the history variables after detect returned g for frame lm at time t
Observe(lm, t, g) ==
    LET pinch == is_drag_pinch(lm)
        fresh == pinch /\ ~WasDragPinch
        ev    == IF g \in DragEvents THEN <<g>> ELSE <<>>
    IN  /\ epStart' = IF fresh THEN t ELSE epStart
        /\ epPost' = IF fresh THEN 0
                      ELSE IF pinch /\ t - epStart > drag_hold_ms
                      THEN epPost + 1 ELSE epPost
        /\ epLog' = IF fresh THEN ev ELSE epLog \o ev
        /\ pinchSince' = [p \in ClickPairs |->
                             IF PairDist(p, lm) < pinch_thresh
                             THEN (IF pinchSince[p] # 0 THEN pinchSince[p] ELSE t)
                             ELSE 0]
        /\ lastClick' = [c \in ClickTypes |-> IF g = c THEN t ELSE lastClick[c]]
        /\ heldClicks' = [p \in ClickPairs |->
                             IF PairDist(p, lm) < pinch_thresh
                             THEN heldClicks[p] + (IF g = PairClick(p) THEN 1 ELSE 0)
                             ELSE 0]
        /\ lastScroll' = IF g \in ScrollEvents THEN t ELSE lastScroll

\* the wall clock at the next processed frame: one tick after the last one
FrameTimes(ticks) == {now + TickMs} \cap (0..(EpochMs + ticks * TickMs))

\* one frame, drawn from the hands in frames, handed to GestureDetector.detect
Detect(frames, ticks) ==
    \E lm \in frames, t \in FrameTimes(ticks) :
        LET s == detect(GDState, lm, t)
        IN  /\ now' = t
            /\ gesture_timers' = s.gesture_timers
            /\ last_landmarks' = s.last_landmarks
            /\ drag_state' = s.drag_state
            /\ drag_start_time' = s.drag_start_time
            /\ last_zoom_dist' = s.last_zoom_dist
            /\ last_scroll_y' = s.last_scroll_y
            /\ last_scroll_x' = s.last_scroll_x
            /\ gesture' = s.gesture
            /\ Observe(lm, t, s.gesture)
            /\ UNCHANGED <<ccVars, ccHist, filtVars, filtHist, plVars>>

DetectDrag == Detect(DragFrames, MaxTicks)

DetectClick == Detect(ClickFrames, ClickTicks)

SpecDrag == InitGD /\ [][DetectDrag]_vars

(***************************************************************************)
(* C1.  Drag lifecycle: a thumb-index pinch that is pinched in every frame *)
(* until more than drag_hold_ms after its first frame, stays pinched for K *)
(* further frames and is then released, returns exactly DRAG_START, then K *)
(* times DRAG_MOVE, then DRAG_END on the release frame, and no other drag  *)
(* event.  (epPost counts the frame that crosses the threshold and the K   *)
(* further ones.)                                                          *)
(***************************************************************************)
Lifecycle(k) ==
    <<"DRAG_START">> \o [i \in 1..k |-> "DRAG_MOVE"] \o <<"DRAG_END">>

C1_DragLifecycle ==
    (epStart # 0 /\ ~WasDragPinch /\ epPost >= 1) => epLog = Lifecycle(epPost - 1)

\* a released drag with K = 2
C1_Witness ==
    /\ epStart # 0 /\ ~WasDragPinch /\ epPost = 3
    /\ epLog = <<"DRAG_START", "DRAG_MOVE", "DRAG_MOVE", "DRAG_END">>
    /\ gesture = "DRAG_END"

SpecClick == InitGD /\ [][DetectClick]_vars

(***************************************************************************)
(* Vocabulary of the click and drag properties.                            *)
(***************************************************************************)
\* the frame of the last detect call
Frame == last_landmarks[1]

\* the click condition of highest priority that a frame satisfies
SelectedClick(lm) ==
    IF all_three_pinch(lm) THEN "MIDDLE_CLICK"
    ELSE IF middle_ring_dist(lm) < pinch_thresh THEN "RIGHT_CLICK"
    ELSE IF index_middle_dist(lm) < pinch_thresh THEN "LEFT_CLICK"
    ELSE "NONE"

\* the thumb-index machine returned an event for the last frame
DragSpoke == gesture \in DragEvents \cup ZoomEvents

\* the pair's persisted pinched flag: the drag machine is engaged
Engaged == drag_state # "RELEASED"

(***************************************************************************)
(* C3.  Click debounce: two returns of the same click type are at least    *)
(* click_debounce_ms apart, so a second pinch edge of a pair less than     *)
(* click_debounce_ms after its click returns no second click.              *)
(***************************************************************************)
C3_ClickDebounce ==
    [][\A c \in ClickTypes :
          (gesture' = c /\ lastClick[c] # 0)
              => now' - lastClick[c] >= click_debounce_ms]_vars

\* index-middle pinched again 80 ms after its LEFT_CLICK: no click
C3_Witness ==
    /\ last_landmarks # <<>>
    /\ SelectedClick(Frame) = "LEFT_CLICK"
    /\ pinchSince["IM"] = now
    /\ lastClick["LEFT_CLICK"] # 0
    /\ now - lastClick["LEFT_CLICK"] < click_debounce_ms
    /\ gesture = "NONE"

C6_Original == \A p \in ClickPairs : heldClicks[p] <= 1

(***************************************************************************)
(* C6, what the detector does instead.  The click repeats while the pair   *)
(* is held: once a click was returned for a pinched pair, a frame in which *)
(* the pair is still pinched (its click the selected condition, the drag   *)
(* machine returning no event) returns the click again exactly when more   *)
(* than click_debounce_ms have passed since the previous one.              *)
(***************************************************************************)
C6_RepeatAfterDebounce ==
    [][\A p \in ClickPairs :
          (/\ heldClicks[p] >= 1
           /\ pinchSince'[p] # 0 /\ pinchSince'[p] = pinchSince[p]
           /\ SelectedClick(Frame') = PairClick(p)
           /\ ~DragSpoke')
              => (gesture' = PairClick(p)
                    <=> now' - lastClick[PairClick(p)] > click_debounce_ms)]_vars

\* a second LEFT_CLICK of one index-middle pinch
C6_Witness ==
    /\ gesture = "LEFT_CLICK"
    /\ heldClicks["IM"] = 2
    /\ pinchSince["IM"] < now

(***************************************************************************)
(* C7.  Click priority: a returned click is the click of the highest       *)
(* satisfied condition (three-finger pinch: MIDDLE_CLICK, never RIGHT or   *)
(* LEFT, also when MIDDLE_CLICK is held back by its debounce; else         *)
(* middle-ring: RIGHT_CLICK, never LEFT; else index-middle: LEFT_CLICK),   *)
(* and that click is returned when its debounce has passed and the drag    *)
(* machine returned no event.                                              *)
(***************************************************************************)
C7_ClickPriority ==
    [][LET sel == SelectedClick(Frame')
       IN  /\ gesture' \in ClickTypes => gesture' = sel
           /\ (/\ sel # "NONE"
               /\ ~DragSpoke'
               /\ now' - lastClick[sel] > click_debounce_ms)
                  => gesture' = sel]_vars

\* a three-finger pinch with index-middle pinched, MIDDLE_CLICK held back by
\* its debounce and LEFT_CLICK never returned: no click
C7_Witness ==
    /\ last_landmarks # <<>>
    /\ all_three_pinch(Frame)
    /\ index_middle_dist(Frame) < pinch_thresh
    /\ lastClick["MIDDLE_CLICK"] # 0
    /\ now - lastClick["MIDDLE_CLICK"] <= click_debounce_ms
    /\ lastClick["LEFT_CLICK"] = 0
    /\ lastClick["RIGHT_CLICK"] = 0
    /\ gesture = "NONE"

(***************************************************************************)
(* C8.  As claimed: a satisfied click condition whose debounce has passed  *)
(* is the event of the frame, whatever the drag machine does.              *)
(***************************************************************************)
C8_Original ==
    [][LET sel == SelectedClick(Frame')
       IN  (sel # "NONE" /\ now' - lastClick[sel] > click_debounce_ms)
              => gesture' = sel]_vars

(***************************************************************************)
(* C8, amended.  The drag machine outranks the clicks: a frame processed   *)
(* in state DRAGGING returns DRAG_MOVE or DRAG_END, a click is returned    *)
(* only when the drag machine returned no event and the state is not       *)
(* DRAGGING, and in such a frame a satisfied click condition whose         *)
(* debounce has passed is the event.                                       *)
(***************************************************************************)
C8_DragOutranksClick ==
    [][LET sel == SelectedClick(Frame')
       IN  /\ drag_state = "DRAGGING" => gesture' \in {"DRAG_MOVE", "DRAG_END"}
           /\ gesture' \in ClickTypes => drag_state' # "DRAGGING"
           /\ (/\ sel # "NONE"
               /\ now' - lastClick[sel] > click_debounce_ms
               /\ gesture' \notin DragEvents \cup ZoomEvents)
                  => gesture' = sel]_vars

\* DRAG_MOVE in a frame whose index-middle pinch is ready to click
C8_Witness ==
    /\ gesture = "DRAG_MOVE"
    /\ SelectedClick(Frame) = "LEFT_CLICK"
    /\ now - lastClick["LEFT_CLICK"] > click_debounce_ms

(***************************************************************************)
(* The cursor runs.                                                        *)
(***************************************************************************)
\* a fresh cursor run on the controller c and the layout d
FreshRun(c, d) ==
    /\ cursor = c
    /\ display = d
    /\ monitors = Layouts[d]
    /\ locals = NoLocals
    /\ perf = 0
    /\ pos = None
    /\ middle = None
    /\ ucalls = 0
    /\ lastSign = <<0, 0>>
    /\ runSign = <<0, 0>>
    /\ ctor = None

InitCursor ==
    /\ FreshDetector
    /\ IdlePipeline
    /\ IdleFilters
    /\ \E os \in OSNames, relative \in BOOLEAN, d \in DOMAIN Layouts :
          \E probe \in Probes(Layouts[d]) :
             FreshRun(CursorController(os, relative,
                                       detect_virtual_screen(os, probe)), d)

\* the probes that can matter to a call at clock t
ProbesAt(t) ==
    IF t - cursor.last_detect_ts < refresh_ms
    THEN {[mons |-> {}, native |-> {}, size |-> None]}
    ELSE Probes(Layouts[display])

\* the pointer answers that can matter to the next call
PointersNow ==
    IF cursor.use_relative /\ (cursor.last_norm_x = None \/ cursor.last_abs_x = None)
    THEN Pointers(cursor.os, Layouts[display])
    ELSE {None}

Sign(d) == IF d > 0 THEN 1 ELSE IF d < 0 THEN -1 ELSE 0

\* the displacement of the sample p from the reference, after the deadzone,
\* on both axes; <<0, 0>> when the call seeds
Displacement(p) ==
    IF cursor.use_relative /\ cursor.last_norm_x # None
                          /\ cursor.last_norm_y # None
    THEN <<deadzone((NormDen - p[1]) - cursor.last_norm_x[1]),
           deadzone(p[2] - cursor.last_norm_y[1])>>
    ELSE <<0, 0>>

\* the history variables after a call on the sample p
ObserveMove(p) ==
    LET d       == Displacement(p)
        seeding == ~cursor.use_relative \/ cursor.last_norm_x = None
                      \/ cursor.last_norm_y = None
    IN  /\ lastSign' = <<Sign(d[1]), Sign(d[2])>>
        /\ runSign' = [i \in 1..2 |->
                          IF seeding THEN 0
                          ELSE IF d[i] # 0 /\ runSign[i] \in {0, Sign(d[i])}
                          THEN Sign(d[i])
                          ELSE 2]

\* one update_position call, on a sample of points, steps after the last one
Update(points, steps, calls) ==
    /\ ucalls < calls
    /\ \E p \in points, dt \in steps :
          \E probe \in ProbesAt(perf + dt), pointer \in PointersNow :
             LET r == update_position(cursor, p[1], p[2], perf + dt,
                                      detect_virtual_screen(cursor.os, probe),
                                      pointer)
             IN  /\ cursor' = r.c
                 /\ pos' = Some(r.out)
                 /\ middle' = Some(p)
                 /\ perf' = perf + dt
                 /\ ObserveMove(p)
    /\ ucalls' = ucalls + 1
    /\ UNCHANGED <<display, monitors, locals, ctor, gdVars, histVars,
                   filtVars, filtHist, plVars>>

UpdatePosition == Update(Points, PerfSteps, MaxCalls)

SpecCursor == InitCursor /\ [][UpdatePosition]_vars

(***************************************************************************)
(* C2.  As claimed: every (x, y) that update_position returned lies within *)
(* the bounds of the controller's present geometry, origin + offset <=     *)
(* coordinate <= origin + offset + dimension - 1 on both axes.             *)
(***************************************************************************)
C2_WithinBounds ==
    pos # None
        => /\ MinX(cursor) <= pos[1][1] /\ pos[1][1] <= MaxX(cursor)
           /\ MinY(cursor) <= pos[1][2] /\ pos[1][2] <= MaxY(cursor)

\* on Linux with monitors 1920x1080 at (-1920, 0) and 1280x1024 at (0, 0)
\* and no pointer answer, the first call in relative mode returned the
\* centre without the offset, (-320, 540), left of the bounds 0..3199
C2_CentreOutside ==
    /\ cursor.os = "Linux" /\ cursor.use_relative
    /\ GeometryOf(cursor) = Geometry(-1920, 0, 3200, 1080, 1920, 0)
    /\ ucalls = 1
    /\ pos = Some(<<-320, 540>>)
    /\ MinX(cursor) = 0 /\ MaxX(cursor) = 3199

(***************************************************************************)
(* C9.  With origin (-1920, 0) and size (3840, 1080) on Linux, what        *)
(* update_position returned (either mode, the first call included) and     *)
(* what map_normalized_to_screen returns for every sample are >= 0, and    *)
(* every x in 0..3839 and every y in 0..1079 is the mapped value of a      *)
(* normalized input, x / 3839 and y / 1079.                                *)
(***************************************************************************)
LeftExtended ==
    /\ cursor.os = "Linux"
    /\ cursor.origin_x = -1920 /\ cursor.origin_y = 0
    /\ cursor.screen_width = 3840 /\ cursor.screen_height = 1080

C9_NonNegativeFullRange ==
    LeftExtended
        => /\ pos # None => pos[1][1] >= 0 /\ pos[1][2] >= 0
           /\ \A p \in Points :
                 LET m == map_normalized_to_screen(cursor, p[1], p[2], NormDen)
                 IN  m[1] >= 0 /\ m[2] >= 0
           /\ \A x \in 0..3839 :
                 map_normalized_to_screen(cursor, x, 0, 3839)[1] = x
           /\ \A y \in 0..1079 :
                 map_normalized_to_screen(cursor, 0, y, 1079)[2] = y

\* the first call in relative mode returned the centre, x = 0, and a later
\* call moved the cursor away from it
C9_Witness ==
    /\ LeftExtended
    /\ cursor.use_relative
    /\ ucalls >= 2
    /\ pos # None /\ pos[1][1] > 0
    /\ cursor.coord_offset_x = 1920

(***************************************************************************)
(* C10.  The first update_position call of a controller in absolute mode,  *)
(* for a fingertip (x, y) in [0,1] x [0,1], returns                        *)
(* (origin_x + round((1 - x) * (W - 1)) + offset_x,                        *)
(*  origin_y + round(y * (H - 1)) + offset_y), which is within bounds; so  *)
(* (0,0) returns the top right corner, (1,1) the bottom left one, and      *)
(* (0.5,0.5) a pixel within one of the centre (on 1920x1080 at origin 0:   *)
(* 900 < x < 1000 and 490 < y < 590).                                      *)
(***************************************************************************)
InUnitSquare(p) == p[1] \in 0..NormDen /\ p[2] \in 0..NormDen

C10_AbsoluteFirstCall ==
    [][(ucalls = 0 /\ ~cursor.use_relative /\ InUnitSquare(middle'[1]))
         => LET c == cursor'
                x == middle'[1][1]
                y == middle'[1][2]
                W == c.screen_width
                H == c.screen_height
                out == pos'[1]
            IN  /\ out[1] = c.origin_x
                              + RoundHalfEven((NormDen - x) * (W - 1), NormDen)
                              + c.coord_offset_x
                /\ out[2] = c.origin_y + RoundHalfEven(y * (H - 1), NormDen)
                              + c.coord_offset_y
                /\ out = clip_to_bounds(c, out[1], out[2])
                /\ (x = 0 /\ y = 0) => out = <<MaxX(c), MinY(c)>>
                /\ (x = NormDen /\ y = NormDen) => out = <<MinX(c), MaxY(c)>>
                /\ (2 * x = NormDen /\ 2 * y = NormDen)
                      => /\ Abs(out[1] - (MinX(c) + W \div 2)) <= 1
                         /\ Abs(out[2] - (MinY(c) + H \div 2)) <= 1
                /\ (/\ 2 * x = NormDen /\ 2 * y = NormDen
                    /\ GeometryOf(c) = Geometry(0, 0, 1920, 1080, 0, 0))
                      => /\ 900 < out[1] /\ out[1] < 1000
                         /\ 490 < out[2] /\ out[2] < 590]_vars

\* the centre sample on 1920x1080 returned (960, 540) in the first call
C10_Witness ==
    /\ ucalls = 1
    /\ ~cursor.use_relative
    /\ middle = Some(<<NormDen \div 2, NormDen \div 2>>)
    /\ GeometryOf(cursor) = Geometry(0, 0, 1920, 1080, 0, 0)
    /\ pos = Some(<<960, 540>>)

(***************************************************************************)
(* Vocabulary of the relative-mode properties.                             *)
(***************************************************************************)
\* the controller has a reference sample: the next call is a relative move
Seeded == cursor.use_relative /\ cursor.last_norm_x # None
              /\ cursor.last_norm_y # None

\* the next call's sample is within the deadzone of the reference on both axes
WithinDeadzone(p) ==
    /\ Abs((NormDen - p[1]) - cursor.last_norm_x[1]) < deadz
    /\ Abs(p[2] - cursor.last_norm_y[1]) < deadz

\* the relative state that a zero displacement leaves alone in any case
RelativeRest(c) ==
    <<c.last_norm_x, c.last_norm_y, c.last_ts, c.ema_dx, c.ema_dy,
      c.filter_x, c.filter_y>>

(***************************************************************************)
(* C11.  As claimed: a relative-mode call whose sample is within the       *)
(* deadzone of the reference on both axes returns exactly the previous     *)
(* output and leaves the reference, the last absolute position, the last   *)
(* timestamp, the EMA stabilizers and the position filters unchanged.      *)
(***************************************************************************)
C11_Original ==
    [][(Seeded /\ WithinDeadzone(middle'[1]))
         => /\ pos' = pos
            /\ RelativeRest(cursor') = RelativeRest(cursor)
            /\ cursor'.last_abs_x = cursor.last_abs_x
            /\ cursor'.last_abs_y = cursor.last_abs_y]_vars

(***************************************************************************)
(* C11, amended.  Such a call returns the last absolute position and       *)
(* leaves the reference, the last timestamp, the EMA stabilizers and the   *)
(* position filters unchanged; the last absolute position, and with it the *)
(* returned value, is the previous output when the call's geometry refresh *)
(* changed nothing, and the previous output clipped to the new bounds when *)
(* the refresh changed the geometry.                                       *)
(***************************************************************************)
C11_ZeroDisplacement ==
    [][(Seeded /\ WithinDeadzone(middle'[1]))
         => /\ RelativeRest(cursor') = RelativeRest(cursor)
            /\ pos' = Some(<<cursor'.last_abs_x[1], cursor'.last_abs_y[1]>>)
            /\ pos'[1] = clip_to_bounds(cursor', pos[1][1], pos[1][2])
                 \/ (GeometryOf(cursor') = GeometryOf(cursor) /\ pos' = pos)
            /\ GeometryOf(cursor') = GeometryOf(cursor) => pos' = pos]_vars

\* a second call half a deadzone from the reference returned the first output
C11_Witness ==
    /\ cursor.use_relative
    /\ ucalls = 2
    /\ middle = Some(<<NormDen \div 2 - deadz \div 2, NormDen \div 2>>)
    /\ cursor.last_norm_x = Some(NormDen \div 2)
    /\ cursor.last_norm_y = Some(NormDen \div 2)
    /\ pos = Some(<<cursor.last_abs_x[1], cursor.last_abs_y[1]>>)

(***************************************************************************)
(* The relative runs: a controller in relative mode, geometry detected by  *)
(* screeninfo, and samples a frame apart that move along one axis.         *)
(***************************************************************************)
RelPoints == {<<x, NormDen \div 2>> : x \in {300, 480, 500, 520, 700}}
                 \cup {<<NormDen \div 2, 300>>}

\* the platforms and layouts of the relative runs
RelSetups == {<<"Linux", 1>>, <<"Windows", 2>>, <<"Linux", 3>>}

InitRelative ==
    /\ FreshDetector
    /\ IdlePipeline
    /\ IdleFilters
    /\ \E su \in RelSetups :
          FreshRun(CursorController(su[1], TRUE,
                       detect_virtual_screen(su[1],
                           [mons |-> Layouts[su[2]], native |-> {},
                            size |-> None])), su[2])

UpdateRelative == Update(RelPoints, {FrameMs}, MaxMoves)

SpecRelative == InitRelative /\ [][UpdateRelative]_vars

\* the output lies within the bounds of the controller's geometry
InBounds(c, out) ==
    /\ MinX(c) <= out[1] /\ out[1] <= MaxX(c)
    /\ MinY(c) <= out[2] /\ out[2] <= MaxY(c)

Samples == {10 * FP, 20 * FP, 30 * FP, 50 * FP}

\* the Kalman process noises of the runs: 0.01 and the default
ProcessNoises == {process_noise \div 10, process_noise}

InitFilters ==
    /\ FreshDetector
    /\ IdlePipeline
    /\ IdleCursor
    /\ \E pn \in ProcessNoises, w \in (MaxWindow - 1)..MaxWindow :
          FreshFilters(pn, w)

\* the last n elements of a sequence
LastN(q, n) == SubSeq(q, Len(q) - n + 1, Len(q))

\* filter(x) on each of the three filters
Filter ==
    \E x \in Samples :
       /\ \/ nfed < MaxFeeds
          \/ fin = Some(x) /\ streak < StreakLen
          \/ streak = StreakLen /\ nfed <= StreakLen + MaxFeeds
       /\ kf' = kalman_filter(kf, x)
       /\ maf' = ma_filter(maf, x)
       /\ emaf' = ema_filter(emaf, x)
       /\ fin' = Some(x)
       /\ fout' = Some([kalman |-> kf'.estimate[1], ma |-> ma_output(maf'),
                        ema |-> emaf'[1]])
       /\ lastOp' = "filter"
       /\ recent' = LET r == recent \o <<x>>
                    IN  LastN(r, Min(Len(r), MaxWindow))
       /\ nfed' = nfed + 1
       /\ streak' = IF fin = Some(x) THEN streak + 1 ELSE 1
       /\ UNCHANGED <<gdVars, histVars, ccVars, ccHist, plVars>>

\* reset on each of the three filters: reset() or, where the class takes a
\* value, reset(0.0)
Reset ==
    /\ lastOp = "filter"
    /\ \E value \in {None, Some(0)} :
          /\ kf' = kalman_reset(kf, value)
          /\ emaf' = ema_reset(value)
          /\ lastOp' = IF value = None THEN "reset" ELSE "reset_to"
    /\ maf' = ma_reset(maf)
    /\ fin' = None
    /\ fout' = None
    /\ recent' = <<>>
    /\ nfed' = 0
    /\ streak' = 0
    /\ UNCHANGED <<gdVars, histVars, ccVars, ccHist, plVars>>

SpecFilters == InitFilters /\ [][Filter \/ Reset]_vars

(***************************************************************************)
(* Vocabulary of the filter properties.                                    *)
(***************************************************************************)
\* the filter calls of the step behave as first calls on the sample: each
\* returns its input and leaves the state a fresh instance would have
AsFirstCall ==
    LET x == fin'[1]
    IN  /\ fout' = Some([kalman |-> x, ma |-> x, ema |-> x])
        /\ kf' = kalman_filter(
                     KalmanFilter1D(kf.process_noise, kf.measurement_noise), x)
        /\ maf' = ma_filter(MovingAverageFilter(maf.window_size), x)
        /\ emaf' = ema_filter(None, x)

(***************************************************************************)
(* C13.  As claimed: the first filter call on a fresh instance, and the    *)
(* first filter call after any reset call, returns its input unchanged and *)
(* leaves the filter in the state of a fresh instance after that call.     *)
(***************************************************************************)
C13_Original ==
    [][(lastOp \in {"new", "reset", "reset_to"} /\ lastOp' = "filter")
          => AsFirstCall]_vars

(***************************************************************************)
(* C13, amended.  That holds on a fresh instance and after reset() called  *)
(* without a value.  After reset(v) on a Kalman or EMA filter the next     *)
(* call blends its input with v: the Kalman filter returns                 *)
(* v + K * (x - v) with K = (1 + q) / (1 + q + r), the EMA filter          *)
(* a * x + (1 - a) * v; the moving average, whose reset takes no value,    *)
(* returns its input.                                                      *)
(***************************************************************************)
C13_FirstCallAfterPlainReset ==
    [][/\ (lastOp \in {"new", "reset"} /\ lastOp' = "filter") => AsFirstCall
       /\ (lastOp = "reset_to" /\ lastOp' = "filter")
             => LET x == fin'[1]
                    v == kf.estimate[1]
                    K == ((FP + kf.process_noise) * FP)
                            \div (FP + kf.process_noise + kf.measurement_noise)
                IN  /\ fout'[1].kalman = v + MulDiv(x - v, K, FP)
                    /\ fout'[1].ema = MulDiv(x, stabilizer_alpha, FP)
                                        + MulDiv(emaf[1], FP - stabilizer_alpha, FP)
                    /\ fout'[1].ma = x]_vars

\* a first call returned its input, 50.0, on each of the three filters
C13_Witness ==
    /\ lastOp = "filter"
    /\ nfed = 1
    /\ recent = <<50 * FP>>
    /\ fout = Some([kalman |-> 50 * FP, ma |-> 50 * FP, ema |-> 50 * FP])
    /\ maf.buffer = <<50 * FP>>
    /\ kf.error_cov = FP

(***************************************************************************)
(* C14.  MovingAverageFilter with window w: after any filter and reset     *)
(* calls the buffer holds the last min(n, w) samples since the most recent *)
(* reset (n of them given), never more than w, the running sum is the sum  *)
(* of the buffer, and filter returned that sum over min(n, w), the mean    *)
(* (w = 3: 10, 20, 30 give 10, 15, 20).                                    *)
(***************************************************************************)
RECURSIVE SeqSum(_)
SeqSum(q) == IF q = <<>> THEN 0 ELSE Head(q) + SeqSum(Tail(q))

C14_MovingAverage ==
    LET k == Min(nfed, maf.window_size)
    IN  /\ Len(maf.buffer) <= maf.window_size
        /\ maf.buffer = LastN(recent, Min(k, Len(recent)))
        /\ Len(maf.buffer) = k
        /\ maf.sum = SeqSum(maf.buffer)
        /\ lastOp = "filter" => fout[1].ma = SeqSum(LastN(recent, k)) \div k
        /\ (/\ lastOp = "filter" /\ maf.window_size = 3
            /\ recent = <<10 * FP, 20 * FP, 30 * FP>>)
              => fout[1].ma = (IF nfed = 3 THEN 20 * FP
                               ELSE IF nfed = 2 THEN 15 * FP ELSE fout[1].ma)

\* window 3 fed 10, 20, 30 since the reset returned 20
C14_Witness ==
    /\ lastOp = "filter"
    /\ maf.window_size = 3
    /\ nfed = 3
    /\ recent = <<10 * FP, 20 * FP, 30 * FP>>
    /\ fout[1].ma = 20 * FP

(***************************************************************************)
(* C15.  Convergence on constant input: in whatever state a filter is, the *)
(* ConvergeCalls-th consecutive call with the same value c, and every      *)
(* later one, returns a value within Eps of c, on each of the three        *)
(* filters; and a Kalman call that blends returns an estimate between the  *)
(* previous estimate and the measurement.                                  *)
(***************************************************************************)
ConvergeCalls == 64
Eps == 2000

Between(a, v, b) == Min(a, b) <= v /\ v <= Max(a, b)

Near(v, c) == Abs(v - c) <= Eps

C15_Converges ==
    [][lastOp' = "filter" =>
         /\ kf.estimate # None
              => Between(kf.estimate[1], kf'.estimate[1], fin'[1])
         /\ streak' >= ConvergeCalls
              => /\ Near(fout'[1].kalman, fin'[1])
                 /\ Near(fout'[1].ma, fin'[1])
                 /\ Near(fout'[1].ema, fin'[1])]_vars

\* a filter settled on one value was then fed another ConvergeCalls times:
\* the Kalman output moved, without a reset, to within Eps of the new value
C15_Witness ==
    /\ lastOp = "filter"
    /\ streak = ConvergeCalls
    /\ nfed >= StreakLen + ConvergeCalls
    /\ kf.process_noise = process_noise \div 10
    /\ fin = Some(50 * FP)
    /\ fout[1].kalman # 50 * FP
    /\ Near(fout[1].kalman, 50 * FP)

(***************************************************************************)
(* First calls: a fresh detector is handed one frame, then another, with   *)
(* every combination of the three fingertip gaps.                          *)
(***************************************************************************)
FirstTicks == 2

FirstFrames ==
    {Hand(RestX, RestY, dTI, dIM, dMR) :
        dTI \in ThumbGaps, dIM \in FingerGaps, dMR \in FingerGaps}

DetectFirst == Detect(FirstFrames, FirstTicks)

SpecFirst == InitGD /\ [][DetectFirst]_vars

\* the call that is about to run is the first one of the detector
FirstCall == last_landmarks = <<>>

\* C16 as stated: each of its four cases taken by itself
C16_Original ==
    [][FirstCall =>
         LET lm == Frame'
             im == index_middle_dist(lm) < pinch_thresh
             mr == middle_ring_dist(lm) < pinch_thresh
         IN  /\ all_three_pinch(lm) => gesture' = "MIDDLE_CLICK"
             /\ (mr /\ ~im) => gesture' = "RIGHT_CLICK"
             /\ (im /\ ~mr) => gesture' = "LEFT_CLICK"
             /\ (~all_three_pinch(lm) /\ ~im /\ ~mr) => gesture' = "NONE"]_vars

(***************************************************************************)
(* C16.  The first detect call of a fresh detector classifies its frame at *)
(* once, whatever the thumb does: MIDDLE_CLICK when index-middle and       *)
(* middle-ring are both within the three-finger threshold; otherwise       *)
(* RIGHT_CLICK when middle-ring is within the pinch threshold; otherwise   *)
(* LEFT_CLICK when index-middle is; otherwise no event.  The click's timer *)
(* is stamped with the time of the call.                                   *)
(***************************************************************************)
C16_FirstCallClassifies ==
    [][FirstCall =>
         LET lm == Frame'
             g  == SelectedClick(lm)
         IN  /\ gesture' = g
             /\ \A k \in TimerKeys :
                   gesture_timers'[k] = IF k = g THEN now' ELSE 0]_vars

\* a first call returned MIDDLE_CLICK for a frame whose middle-ring pair
\* alone is within the pinch threshold, the thumb-index pair pinched as well
C16_Witness ==
    /\ now = EpochMs + TickMs
    /\ gesture = "MIDDLE_CLICK"
    /\ middle_ring_dist(Frame) < pinch_thresh
    /\ ~(index_middle_dist(Frame) < pinch_thresh)
    /\ is_drag_pinch(Frame)
    /\ drag_state = "HELD"

(***************************************************************************)
(* Moving hands: between frames the hand may move down by MoveStep, more   *)
(* than scroll_delta_y, while the thumb and the index-middle pair open and *)
(* close.                                                                  *)
(***************************************************************************)
MoveTicks == 3

MoveStep == 20

MoveFrames ==
    {Hand(RestX, cy, dTI, dIM, 20) :
        cy \in {RestY, RestY + MoveStep}, dTI \in ThumbGaps, dIM \in {4, 20}}

DetectMove == Detect(MoveFrames, MoveTicks)

SpecMove == InitGD /\ [][DetectMove]_vars

\* C17, the engagement itself: RELEASED and a pinched thumb-index pair give
\* HELD with the hold-start at the frame's time and no drag or zoom event;
\* the drag state is one of the three
C17_Engagement ==
    [][/\ drag_state' \in {"RELEASED", "HELD", "DRAGGING"}
       /\ (drag_state = "RELEASED" /\ is_drag_pinch(Frame'))
            => /\ drag_state' = "HELD"
               /\ drag_start_time' = now'
               /\ ~DragSpoke']_vars

(***************************************************************************)
(* C17.  Pinch engagement: a frame processed with the drag state RELEASED  *)
(* and the thumb-index pair pinched makes the state HELD, sets the         *)
(* hold-start time to the frame's time, returns no drag or zoom event, and *)
(* returns no event at all when no other pair is pinched; the drag state   *)
(* is always one of RELEASED, HELD, DRAGGING.                              *)
(***************************************************************************)
C17_Original ==
    [][/\ drag_state' \in {"RELEASED", "HELD", "DRAGGING"}
       /\ (drag_state = "RELEASED" /\ is_drag_pinch(Frame'))
            => /\ drag_state' = "HELD"
               /\ drag_start_time' = now'
               /\ ~DragSpoke'
               /\ SelectedClick(Frame') = "NONE" => gesture' = "NONE"]_vars

\* the engaging frame, no other pair pinched, returned a scroll event
C17_Witness ==
    /\ drag_state = "HELD"
    /\ drag_start_time = now
    /\ is_drag_pinch(Frame)
    /\ SelectedClick(Frame) = "NONE"
    /\ gesture \in ScrollEvents

(***************************************************************************)
(* Controllers constructed with explicit dimensions, with and without an   *)
(* explicit origin, on each display layout.                                *)
(***************************************************************************)
ExplicitSizes == {<<1920, 1080>>, <<1600, 900>>}

InitExplicit ==
    /\ FreshDetector
    /\ IdlePipeline
    /\ IdleFilters
    /\ \E os \in OSNames, relative \in BOOLEAN, d \in DOMAIN Layouts :
          \E probe \in Probes(Layouts[d]), wh \in ExplicitSizes,
             origin \in {None, Some(0)} :
                /\ cursor = CursorControllerWith(os, relative,
                               Some(wh[1]), Some(wh[2]), origin, origin,
                               detect_virtual_screen(os, probe))
                /\ ctor = Some([screen_width |-> wh[1],
                                screen_height |-> wh[2], origin |-> origin])
                /\ display = d
                /\ monitors = Layouts[d]
                /\ locals = NoLocals
                /\ perf = 0
                /\ pos = None
                /\ middle = None
                /\ ucalls = 0
                /\ lastSign = <<0, 0>>
                /\ runSign = <<0, 0>>

UpdateExplicit == Update(Points, PerfSteps, MaxCalls)

SpecExplicit == InitExplicit /\ [][UpdateExplicit]_vars

(***************************************************************************)
(* C18.  A controller constructed with explicit screen_width = W and       *)
(* screen_height = H and no origin reports those dimensions, and every     *)
(* later update_position is bounded by exactly that geometry, whatever the *)
(* display probe answers: the output lies in a W by H rectangle.           *)
(***************************************************************************)
C18_ExplicitGeometry ==
    (ctor # None /\ ctor[1].origin = None)
        => /\ cursor.screen_width = ctor[1].screen_width
           /\ cursor.screen_height = ctor[1].screen_height
           /\ pos # None
                => /\ pos[1][1] - MinX(cursor) < ctor[1].screen_width
                   /\ pos[1][2] - MinY(cursor) < ctor[1].screen_height

\* constructed with 1920 and 1080 and no origin on a desktop of two monitors
\* side by side, the controller reports a width of 3840 and returned an x
\* beyond 1919
C18_Witness ==
    /\ ctor = Some([screen_width |-> 1920, screen_height |-> 1080,
                    origin |-> None])
    /\ cursor.screen_width = 3840
    /\ pos # None
    /\ pos[1][1] - MinX(cursor) > 1919

\* what the constructor does instead: without an origin the dimensions are
\* the detected ones at construction; with one they are the given ones
\* until the first refresh
C18_DetectedUnlessOrigin ==
    (ctor # None /\ ucalls = 0)
        => IF ctor[1].origin = None
           THEN \E probe \in Probes(Layouts[display]) :
                   GeometryOf(cursor) = detect_virtual_screen(cursor.os, probe)
           ELSE GeometryOf(cursor) = Geometry(0, 0, ctor[1].screen_width,
                                              ctor[1].screen_height, 0, 0)

(***************************************************************************)
(* C19.  Threshold units: with pinch_threshold_min = 2.0 cm the pinch      *)
(* threshold is 0.05 (within 0.001) in the unit of the landmarks that      *)
(* process_frame hands to detect (20/400 here, within 0.4/400), so a       *)
(* thumb-index distance below 0.049 engages the drag machine;              *)
(* click_debounce_ms is the configured 100.                                *)
(***************************************************************************)
C19_ThresholdUnits ==
    /\ click_debounce_ms = 100
    /\ Abs(pinch_thresh * 10 - 20 * 10) < 4
    /\ (last_landmarks # <<>> /\ thumb_index_dist(Frame) * 10 < 20 * 10 - 4)
          => Engaged

\* a frame with the thumb and index tips 0.025 apart, half of 0.05, was
\* processed and the drag machine is not engaged; the threshold is 0.02
C19_Witness ==
    /\ last_landmarks # <<>>
    /\ thumb_index_dist(Frame) = 10
    /\ pinch_thresh = 8
    /\ drag_state = "RELEASED"
    /\ gesture = "NONE"

(***************************************************************************)
(* The processing stage: process_thread takes a frame, process_frame hands *)
(* the first hand of sufficient confidence to update_position and detect,  *)
(* and the bundle goes to the action queue, which mouse_action_thread      *)
(* empties.                                                                *)
(***************************************************************************)
\* hand_tracking.detection_confidence, 0.7, in hundredths
detection_confidence == 70

\* advanced.max_queue_depth
max_queue_depth == 2

PipeTicks == 3

\* landmark coordinates are counted in 1/LandmarkDen of the image
LandmarkDen == 400

\* the confidences of the detected hands: below, at and above the threshold
Confidences == {50, detection_confidence, 90}

PipeFrames ==
    {Hand(cx, RestY, dTI, 20, 20) : cx \in {RestX, RestX + MoveStep},
                                    dTI \in {4, 20}}

\* what HandTracker.detect can return: no hand, one hand, or two hands, an
\* open one and a pinching one beside it, each of any confidence
DetectedHands ==
    LET H      == [lm : PipeFrames, confidence : Confidences]
        open   == {h \in H : h.lm = Hand(RestX, RestY, 20, 20, 20)}
        beside == {h \in H : h.lm = Hand(RestX + MoveStep, RestY, 4, 20, 20)}
    IN  {<<>>} \cup {<<h>> : h \in H}
               \cup {<<h1, h2>> : h1 \in open, h2 \in beside}

\* a slip: every detected hand is processed
accepts_all(confidence) == TRUE

\* process_frame: the confidence test on a detected hand
accepts(confidence) == confidence > detection_confidence

\* landmarks[12] of a frame, (x, y) over NormDen
MiddleOf(lm) ==
    <<(lm.middle[1] * NormDen) \div LandmarkDen,
      (lm.middle[2] * NormDen) \div LandmarkDen>>

\* process_thread: the bundle is enqueued when there is a gesture or a
\* cursor position and the queue is not full
put_action(q, r) ==
    IF (r.gesture # "NONE" \/ r.cursor_pos # None) /\ Len(q) < max_queue_depth
    THEN Append(q, <<r.gesture, r.cursor_pos>>)
    ELSE q

\* one iteration of process_thread on a frame taken from the process queue
ProcessFrame ==
    \E hs \in DetectedHands, t \in FrameTimes(PipeTicks) :
       \E probe \in ProbesAt(perf + TickMs), pointer \in PointersNow :
          LET ok == {i \in DOMAIN hs : accepts(hs[i].confidence)}
          IN  /\ now' = t
              /\ perf' = perf + TickMs
              /\ top' = SetMax({0} \cup {hs[i].confidence : i \in DOMAIN hs})
              /\ IF ok = {}
                 THEN /\ returned' = [gesture |-> "NONE", cursor_pos |-> None]
                      /\ action_queue' = put_action(action_queue, returned')
                      /\ UNCHANGED <<gesture_timers, last_landmarks, drag_state,
                                     drag_start_time, last_zoom_dist,
                                     last_scroll_y, last_scroll_x, gesture,
                                     histVars, cursor, pos, middle, ucalls,
                                     lastSign, runSign, dcalls>>
                 ELSE LET h == hs[SetMin(ok)]
                          p == MiddleOf(h.lm)
                          r == update_position(cursor, p[1], p[2],
                                   perf + TickMs,
                                   detect_virtual_screen(cursor.os, probe),
                                   pointer)
                          s == detect(GDState, h.lm, t)
                      IN  /\ cursor' = r.c
                          /\ pos' = Some(r.out)
                          /\ middle' = Some(p)
                          /\ ucalls' = ucalls + 1
                          /\ ObserveMove(p)
                          /\ gesture_timers' = s.gesture_timers
                          /\ last_landmarks' = s.last_landmarks
                          /\ drag_state' = s.drag_state
                          /\ drag_start_time' = s.drag_start_time
                          /\ last_zoom_dist' = s.last_zoom_dist
                          /\ last_scroll_y' = s.last_scroll_y
                          /\ last_scroll_x' = s.last_scroll_x
                          /\ gesture' = s.gesture
                          /\ Observe(h.lm, t, s.gesture)
                          /\ dcalls' = dcalls + 1
                          /\ returned' = [gesture |-> s.gesture,
                                          cursor_pos |-> Some(r.out)]
                          /\ action_queue' = put_action(action_queue, returned')
              /\ UNCHANGED <<display, monitors, locals, ctor, filtVars, filtHist,
                             thVars>>

\* one iteration of mouse_action_thread: a bundle leaves the action queue
MouseAction ==
    /\ action_queue # <<>>
    /\ action_queue' = Tail(action_queue)
    /\ UNCHANGED <<gdVars, histVars, ccVars, ccHist, filtVars, filtHist,
                   returned, top, dcalls, thVars>>

InitPipeline ==
    /\ FreshDetector
    /\ IdleFilters
    /\ IdlePipeline
    /\ \E relative \in BOOLEAN :
          FreshRun(CursorController("Linux", relative,
                       detect_virtual_screen("Linux",
                           [mons |-> Layouts[1], native |-> {},
                            size |-> None])), 1)

SpecPipeline == InitPipeline /\ [][ProcessFrame \/ MouseAction]_vars

(***************************************************************************)
(* C20.  Low-confidence frames preserve state: a frame in which no         *)
(* detected hand has a confidence above the threshold leads to no          *)
(* update_position and no detect call, process_frame returns nothing, no   *)
(* bundle is enqueued, and the controller (filters, relative-mode state)   *)
(* and the detector (timers, drag state, zoom and scroll references, last  *)
(* landmarks) are as before, so the next confident frame is processed from *)
(* the state the last confident one left.                                  *)
(***************************************************************************)
C20_LowConfidencePreserves ==
    [][(now' # now /\ ~(top' > detection_confidence))
         => /\ ucalls' = ucalls
            /\ dcalls' = dcalls
            /\ returned' = [gesture |-> "NONE", cursor_pos |-> None]
            /\ action_queue' = action_queue
            /\ cursor' = cursor
            /\ UNCHANGED <<gesture_timers, last_landmarks, drag_state,
                           drag_start_time, last_zoom_dist, last_scroll_y,
                           last_scroll_x>>]_vars

\* after a confident frame that engaged the pinch and seeded the cursor, a
\* frame whose best hand is just at the threshold came back empty: one call
\* each, one bundle, the detector still HELD
C20_Witness ==
    /\ top = detection_confidence
    /\ returned = [gesture |-> "NONE", cursor_pos |-> None]
    /\ now = EpochMs + 2 * TickMs
    /\ ucalls = 1
    /\ dcalls = 1
    /\ Len(action_queue) = 1
    /\ drag_state = "HELD"
    /\ drag_start_time = EpochMs + TickMs
    /\ cursor.last_abs_x # None

(***************************************************************************)
(* The four threads of GestureGlideApp and run().  A thread stands at      *)
(* "new" (not started), "loop" (the test of while self.running), at one of *)
(* its blocking calls, at "done", or at "failed" when an exception ended   *)
(* it.  A wait with a timeout is a step that either finds what it waits    *)
(* for or times out.  frame_skip is 1, so the capture loop skips no frame. *)
(* The camera delivers finitely many frames, then read() fails.            *)
(***************************************************************************)
MaxFrames == 3

\* everything process_frame works on
coreVars == <<gdVars, histVars, ccVars, ccHist, filtVars, filtHist,
              returned, top, dcalls>>

\* a frame with one hand of the given joint count and confidence, pinching
\* thumb and index
OneHand(joints, confidence) ==
    <<[lm |-> Hand(RestX, RestY, 4, 20, 20), confidence |-> confidence,
       joints |-> joints]>>

\* a frame without a hand
NoHand == <<>>

RECURSIVE SeqsUpTo(_, _)
SeqsUpTo(S, n) ==
    IF n = 0 THEN {<<>>}
    ELSE LET shorter == SeqsUpTo(S, n - 1)
         IN  shorter \cup {Append(q, x) : q \in shorter, x \in S}

\* GestureGlideApp.__init__ and the state before run(): the camera will
\* deliver one of the given sequences of frames, keysets is what config.yaml
\* may lack
InitRun(cameras, keysets) ==
    /\ FreshDetector
    /\ IdleFilters
    /\ action_queue = <<>>
    /\ returned = None
    /\ top = 0
    /\ dcalls = 0
    /\ FreshRun(CursorController("Linux", FALSE,
                    detect_virtual_screen("Linux",
                        [mons |-> Layouts[1], native |-> {},
                         size |-> None])), 1)
    /\ running = FALSE
    /\ is_paused = FALSE
    /\ pc = [th \in Runners |-> IF th = "main" THEN "start" ELSE "new"]
    /\ process_queue = <<>>
    /\ display_queue = <<>>
    /\ camera \in cameras
    /\ missing \in keysets
    /\ frame = None
    /\ IdleMouse

\* the same, the camera delivering up to MaxFrames frames out of frames
InitThreads(frames, keysets) == InitRun(SeqsUpTo(frames, MaxFrames), keysets)

\* a slip: the queue takes the item however full it is
put_unbounded(q, item) == Append(q, item)

\* Queue.put(item, block=False), and put with a timeout that ran out: the
\* item is dropped when the queue is full
put_nowait(q, item) == IF Len(q) < max_queue_depth THEN Append(q, item) ELSE q

\* run(): the flag is set, the threads are started, unless the key is absent
MainStart ==
    /\ pc["main"] = "start"
    /\ IF "enable_multithreading" \in missing
       THEN \* KeyError; finally clears the flag
            /\ running' = FALSE
            /\ pc' = [pc EXCEPT !["main"] = "failed"]
       ELSE /\ running' = TRUE
            /\ pc' = [th \in Runners |->
                         IF th = "main" THEN "join"
                         ELSE IF th = "capture" THEN "open" ELSE "loop"]
    /\ UNCHANGED <<coreVars, action_queue, is_paused, process_queue,
                   display_queue, camera, missing, mouseVars, frame>>

\* run(): display.join() returns, the flag is cleared
MainJoin ==
    /\ pc["main"] = "join"
    /\ pc["display"] \in {"done", "failed"}
    /\ running' = FALSE
    /\ pc' = [pc EXCEPT !["main"] = "done"]
    /\ UNCHANGED <<coreVars, action_queue, is_paused, process_queue,
                   display_queue, camera, missing, mouseVars, frame>>

\* capture_thread: cv2.VideoCapture(0) opens or not
CaptureOpen ==
    /\ pc["capture"] = "open"
    /\ \E opened \in BOOLEAN :
          IF opened
          THEN /\ pc' = [pc EXCEPT !["capture"] = "loop"]
               /\ UNCHANGED running
          ELSE /\ pc' = [pc EXCEPT !["capture"] = "done"]
               /\ running' = FALSE
    /\ UNCHANGED <<coreVars, action_queue, is_paused, process_queue,
                   display_queue, camera, missing, mouseVars, frame>>

\* a slip: the loop does not look at the flag
WhileTrue(th, body) ==
    /\ pc[th] = "loop"
    /\ pc' = [pc EXCEPT ![th] = body]

\* the test of a thread's while self.running
WhileRunning(th, body) ==
    /\ pc[th] = "loop"
    /\ pc' = [pc EXCEPT ![th] = IF running THEN body ELSE "done"]

CaptureLoop ==
    /\ WhileRunning("capture", "read")
    /\ UNCHANGED <<coreVars, action_queue, running, is_paused, process_queue,
                   display_queue, camera, missing, mouseVars, frame>>

\* capture_thread: cap.read() gives a frame or fails
CaptureRead ==
    /\ pc["capture"] = "read"
    /\ pc' = [pc EXCEPT !["capture"] = IF camera = <<>> THEN "loop" ELSE "put"]
    /\ UNCHANGED <<coreVars, action_queue, running, is_paused, process_queue,
                   display_queue, camera, missing, mouseVars, frame>>

\* capture_thread: process_queue.put(frame, block=True, timeout=1) finds
\* room, or the second passes and the frame is dropped
CapturePut ==
    /\ pc["capture"] = "put"
    /\ process_queue' = put_nowait(process_queue, Head(camera))
    /\ camera' = Tail(camera)
    /\ pc' = [pc EXCEPT !["capture"] = "loop"]
    /\ UNCHANGED <<coreVars, action_queue, running, is_paused, display_queue,
                   missing, mouseVars, frame>>

ProcessLoop ==
    /\ WhileRunning("process", "get")
    /\ UNCHANGED <<coreVars, action_queue, running, is_paused, process_queue,
                   display_queue, camera, missing, mouseVars, frame>>

\* process_thread: process_queue.get(timeout=1) gives a frame or times out
ProcessGet ==
    /\ pc["process"] = "get"
    /\ IF process_queue = <<>>
       THEN /\ pc' = [pc EXCEPT !["process"] = "loop"]
            /\ UNCHANGED <<process_queue, frame>>
       ELSE /\ pc' = [pc EXCEPT !["process"] = "frame"]
            /\ frame' = Some(Head(process_queue))
            /\ process_queue' = Tail(process_queue)
    /\ UNCHANGED <<coreVars, action_queue, running, is_paused, display_queue,
                   camera, missing, mouseVars>>

\* process_frame raised: the handler of process_thread ends the thread
Raised ==
    /\ pc' = [pc EXCEPT !["process"] = "failed"]
    /\ UNCHANGED <<returned, action_queue, display_queue, tags>>

\* a slip: the puts wait for room, the thread staying in the put
Returned_waiting(r, landmarks) ==
    /\ pc' = [pc EXCEPT !["process"] =
                 IF Len(action_queue) < max_queue_depth
                    /\ Len(display_queue) < max_queue_depth
                 THEN "loop" ELSE "put"]
    /\ returned' = r
    /\ action_queue' = put_action(action_queue, r)
    /\ tags' = IF action_queue' = action_queue THEN tags
               ELSE Append(tags, is_paused)
    /\ display_queue' = put_nowait(display_queue,
                            [gesture |-> r.gesture, landmarks |-> landmarks,
                             cursor_pos |-> r.cursor_pos])

\* process_frame returned r: the bundles are offered to the two queues
Returned(r, landmarks) ==
    /\ pc' = [pc EXCEPT !["process"] = "loop"]
    /\ returned' = r
    /\ action_queue' = put_action(action_queue, r)
    /\ tags' = IF action_queue' = action_queue THEN tags
               ELSE Append(tags, is_paused)
    /\ display_queue' = put_nowait(display_queue,
                            [gesture |-> r.gesture, landmarks |-> landmarks,
                             cursor_pos |-> r.cursor_pos])

\* process_thread: process_frame on the frame taken, then the two puts
ProcessWork ==
    /\ pc["process"] = "frame"
    /\ \E probe \in ProbesAt(perf + TickMs), pointer \in PointersNow :
          LET hs == frame[1]
              t  == now + TickMs
              tp == perf + TickMs
              g  == detect_virtual_screen(cursor.os, probe)
              ok == {i \in DOMAIN hs : accepts(hs[i].confidence)}
          IN  /\ now' = t
              /\ perf' = tp
              /\ top' = SetMax({0} \cup {hs[i].confidence : i \in DOMAIN hs})
              /\ frame' = None
              /\ IF hs # <<>> /\ "detection_confidence" \in missing
                 THEN \* KeyError at the first hand
                      /\ Raised
                      /\ UNCHANGED <<gesture_timers, last_landmarks, drag_state,
                                     drag_start_time, last_zoom_dist,
                                     last_scroll_y, last_scroll_x, gesture,
                                     histVars, cursor, pos, middle, ucalls,
                                     lastSign, runSign, dcalls>>
                 ELSE IF ok = {}
                 THEN /\ Returned([gesture |-> "NONE", cursor_pos |-> None],
                                  FALSE)
                      /\ UNCHANGED <<gesture_timers, last_landmarks, drag_state,
                                     drag_start_time, last_zoom_dist,
                                     last_scroll_y, last_scroll_x, gesture,
                                     histVars, cursor, pos, middle, ucalls,
                                     lastSign, runSign, dcalls>>
                 ELSE LET h == hs[SetMin(ok)]
                          p == MiddleOf(h.lm)
                          r == update_position(cursor, p[1], p[2], tp, g,
                                               pointer)
                          s == detect(GDState, h.lm, t)
                      IN  IF h.joints <= 12
                          THEN \* IndexError at landmarks[12], after the
                               \* refresh of update_position
                               /\ Raised
                               /\ cursor' = maybe_refresh_virtual_screen(
                                               cursor, tp, g)
                               /\ ucalls' = ucalls + 1
                               /\ UNCHANGED <<gesture_timers, last_landmarks,
                                              drag_state, drag_start_time,
                                              last_zoom_dist, last_scroll_y,
                                              last_scroll_x, gesture, histVars,
                                              pos, middle, lastSign, runSign,
                                              dcalls>>
                          ELSE /\ cursor' = r.c
                               /\ pos' = Some(r.out)
                               /\ middle' = Some(p)
                               /\ ucalls' = ucalls + 1
                               /\ ObserveMove(p)
                               /\ dcalls' = dcalls + 1
                               /\ IF h.joints <= 16
                                  THEN \* IndexError in detect, at the first
                                       \* fingertip that is not there
                                       /\ Raised
                                       /\ UNCHANGED <<gesture_timers,
                                             last_landmarks, drag_state,
                                             drag_start_time, last_zoom_dist,
                                             last_scroll_y, last_scroll_x,
                                             gesture, histVars>>
                                  ELSE /\ gesture_timers' = s.gesture_timers
                                       /\ last_landmarks' = s.last_landmarks
                                       /\ drag_state' = s.drag_state
                                       /\ drag_start_time' = s.drag_start_time
                                       /\ last_zoom_dist' = s.last_zoom_dist
                                       /\ last_scroll_y' = s.last_scroll_y
                                       /\ last_scroll_x' = s.last_scroll_x
                                       /\ gesture' = s.gesture
                                       /\ Observe(h.lm, t, s.gesture)
                                       /\ Returned([gesture |-> s.gesture,
                                              cursor_pos |-> Some(r.out)], TRUE)
    /\ UNCHANGED <<display, monitors, locals, ctor, filtVars, filtHist, running,
                   is_paused, process_queue, camera, missing, bundle, sink,
                   drag_active, taken>>

\* mouse_action_thread: the loop test, then the pause test
MouseLoop ==
    /\ WhileRunning("mouse", IF is_paused THEN "sleep" ELSE "get")
    /\ UNCHANGED <<coreVars, action_queue, running, is_paused, process_queue,
                   display_queue, camera, missing, mouseVars, frame>>

\* mouse_action_thread: time.sleep(0.1) while paused
MouseSleep ==
    /\ pc["mouse"] = "sleep"
    /\ pc' = [pc EXCEPT !["mouse"] = "loop"]
    /\ UNCHANGED <<coreVars, action_queue, running, is_paused, process_queue,
                   display_queue, camera, missing, mouseVars, frame>>

\* a pyautogui call
Call(fn, args) == <<fn, args>>

\* CoreLogic._execute_actions with the MouseActions methods it calls: the
\* pyautogui calls it makes, in order, and drag_active afterwards
execute_actions(g, x, y, active) ==
    LET move == <<Call("moveTo", <<x, y>>)>>
        then == IF g = "LEFT_CLICK" THEN <<Call("click", <<"left">>)>>
                ELSE IF g = "RIGHT_CLICK" THEN <<Call("click", <<"right">>)>>
                ELSE IF g = "MIDDLE_CLICK" THEN <<Call("click", <<"middle">>)>>
                ELSE IF g = "DRAG_START" THEN <<Call("mouseDown", <<"left">>)>>
                ELSE IF g = "DRAG_MOVE" /\ active
                THEN <<Call("moveTo", <<x, y>>)>>
                ELSE IF g = "DRAG_END" /\ active
                THEN <<Call("mouseUp", <<"left">>)>>
                ELSE IF g = "ZOOM_IN" THEN <<Call("scroll", <<5>>)>>
                ELSE IF g = "ZOOM_OUT" THEN <<Call("scroll", <<-5>>)>>
                ELSE <<>>
    IN  [calls |-> move \o then,
         drag_active |-> IF g = "DRAG_START" THEN TRUE
                         ELSE IF g = "DRAG_END" THEN FALSE ELSE active]

\* mouse_action_thread: action_queue.get(timeout=1) times out, or gives a
\* bundle, which is executed when it has a cursor position
MouseGet ==
    /\ pc["mouse"] = "get"
    /\ IF action_queue = <<>>
       THEN /\ pc' = [pc EXCEPT !["mouse"] = "loop"]
            /\ UNCHANGED <<action_queue, bundle, tags, taken>>
       ELSE /\ action_queue' = Tail(action_queue)
            /\ tags' = Tail(tags)
            /\ taken' = Head(tags)
            /\ IF Head(action_queue)[2] # None
               THEN /\ bundle' = Some(Head(action_queue))
                    /\ pc' = [pc EXCEPT !["mouse"] = "execute"]
               ELSE /\ pc' = [pc EXCEPT !["mouse"] = "loop"]
                    /\ UNCHANGED bundle
    /\ UNCHANGED <<coreVars, running, is_paused, process_queue, display_queue,
                   camera, missing, frame, sink, drag_active>>

\* mouse_action_thread: _execute_actions on the bundle taken, the pointer
\* calls returning
MouseExecute ==
    /\ pc["mouse"] = "execute"
    /\ LET g == bundle[1][1]
           p == bundle[1][2][1]
           r == execute_actions(g, p[1], p[2], drag_active)
       IN  /\ sink' = r.calls
           /\ drag_active' = r.drag_active
    /\ pc' = [pc EXCEPT !["mouse"] = "loop"]
    /\ UNCHANGED <<coreVars, action_queue, running, is_paused, process_queue,
                   display_queue, camera, missing, frame, bundle, tags, taken>>

\* display_thread: the loop test; leaving the loop, finally clears the flag
\* that is clear already
DisplayLoop ==
    /\ WhileRunning("display", "get")
    /\ UNCHANGED <<coreVars, action_queue, running, is_paused, process_queue,
                   display_queue, camera, missing, mouseVars, frame>>

\* the configuration keys the display stage indexes for a bundle
display_keys(b) ==
    (IF b.landmarks THEN {"show_hand_skeleton"} ELSE {})
       \cup (IF b.gesture # "NONE" THEN {"show_gesture_indicators"} ELSE {})
       \cup (IF b.cursor_pos # None THEN {"show_cursor_position"} ELSE {})
       \cup {"show_performance_metrics"}

\* display_thread: display_queue.get(timeout=1) times out, or gives a
\* bundle, which is drawn and shown, and a key is polled; keys is what the
\* user may be pressing
DisplayPoll(keys) ==
    /\ pc["display"] = "get"
    /\ IF display_queue = <<>>
       THEN /\ pc' = [pc EXCEPT !["display"] = "loop"]
            /\ UNCHANGED <<display_queue, running, is_paused>>
       ELSE /\ display_queue' = Tail(display_queue)
            /\ IF display_keys(Head(display_queue)) \cap missing # {}
               THEN \* KeyError: the handler and finally end the thread
                    /\ pc' = [pc EXCEPT !["display"] = "failed"]
                    /\ running' = FALSE
                    /\ UNCHANGED is_paused
               ELSE /\ pc' = [pc EXCEPT !["display"] = "loop"]
                    /\ \E key \in keys :
                          /\ running' = IF key = "esc" THEN FALSE ELSE running
                          /\ is_paused' = IF key = "p" THEN ~is_paused
                                          ELSE is_paused
    /\ UNCHANGED <<coreVars, action_queue, process_queue, camera, missing,
                   mouseVars, frame>>

\* the same, the user pressing ESC, 'p' or neither
DisplayGet == DisplayPoll({"none", "esc", "p"})

MainNext == MainStart \/ MainJoin

CaptureNext == CaptureOpen \/ CaptureLoop \/ CaptureRead \/ CapturePut

ProcessNext == ProcessLoop \/ ProcessGet \/ ProcessWork

MouseNext == MouseLoop \/ MouseSleep \/ MouseGet \/ MouseExecute

DisplayNext == DisplayLoop \/ DisplayGet

ThreadsNext ==
    \/ MainStart \/ MainJoin
    \/ CaptureOpen \/ CaptureLoop \/ CaptureRead \/ CapturePut
    \/ ProcessLoop \/ ProcessGet \/ ProcessWork
    \/ MouseLoop \/ MouseSleep \/ MouseGet \/ MouseExecute
    \/ DisplayLoop \/ DisplayGet

\* the frames of the thread runs: no hand, or a confident hand of 21 joints
ThreadFrames == {NoHand, OneHand(21, 90)}

SpecThreads == InitThreads(ThreadFrames, {{}}) /\ [][ThreadsNext]_vars

\* frames whose hand has 21 joints, or fewer: 12 (no landmarks[12]), 16 (no
\* landmarks[16]), 20
JointFrames == {OneHand(j, 90) : j \in {12, 16, 20, 21}}

SpecJoints == InitThreads(JointFrames, {{}}) /\ [][ThreadsNext]_vars

\* the process thread is about to run process_frame on the frame it holds
AtProcessFrame == pc["process"] = "frame" /\ frame # None

\* what process_frame returns for a frame without a usable hand
Nothing == [gesture |-> "NONE", cursor_pos |-> None]

\* the detector's and the controller's state stay as they are
CoreUnchanged ==
    /\ cursor' = cursor
    /\ UNCHANGED <<gesture_timers, last_landmarks, drag_state, drag_start_time,
                   last_zoom_dist, last_scroll_y, last_scroll_x>>

(***************************************************************************)
(* C21.  A landmark set with fewer than 21 joints is treated as no hand:   *)
(* process_frame raises nothing and returns no event and no cursor         *)
(* position, the controller and the detector are left as they were, and    *)
(* the process thread goes on to the next frame.                           *)
(***************************************************************************)
C21_ShortHandIsNoHand ==
    [][(AtProcessFrame /\ frame[1] # <<>>
           /\ \A i \in DOMAIN frame[1] : frame[1][i].joints < 21)
         => /\ pc'["process"] = "loop"
            /\ returned' = Nothing
            /\ CoreUnchanged]_vars

\* a hand of 16 joints moved the cursor, detect raised, and the process
\* thread has ended while the application runs on with a frame in its queue
C21_Witness ==
    /\ running
    /\ pc["process"] = "failed"
    /\ pc["main"] = "join"
    /\ process_queue # <<>>
    /\ ucalls = 1
    /\ pos # None
    /\ last_landmarks = <<>>
    /\ returned = None

\* the keys config.yaml may lack: three that the code indexes, two that it
\* reads with a default
MissingKeys == {"detection_confidence", "show_performance_metrics",
                "enable_multithreading", "pinch_threshold_min",
                "max_queue_depth"}

SpecConfig ==
    InitThreads(ThreadFrames, {{k} : k \in MissingKeys}) /\ [][ThreadsNext]_vars

(***************************************************************************)
(* C22.  Absence of a configuration key is never an error: whatever key is *)
(* missing, no exception is raised, so neither run() nor a pipeline thread *)
(* ends on one.                                                            *)
(***************************************************************************)
C22_MissingKeyNoError == \A th \in Runners : pc[th] # "failed"

\* without hand_tracking.detection_confidence the process thread has ended
\* on the KeyError of the first frame with a hand; the application runs on
C22_Witness ==
    /\ missing = {"detection_confidence"}
    /\ pc["process"] = "failed"
    /\ running
    /\ pc["main"] = "join"
    /\ dcalls = 0

\* C22, what holds: the keys read with a default cost no thread
C22_DefaultedKeys ==
    missing \subseteq {"pinch_threshold_min", "max_queue_depth"}
        => \A th \in Runners : pc[th] # "failed"

\* the threads with a capture thread that is scheduled again and again,
\* the other threads free to be as slow as they like
FairCapture ==
    InitThreads(ThreadFrames, {{}}) /\ [][ThreadsNext]_vars
        /\ WF_vars(CaptureNext)

\* no queue holds more than max_queue_depth items
QueuesBounded ==
    /\ Len(process_queue) <= max_queue_depth
    /\ Len(action_queue) <= max_queue_depth
    /\ Len(display_queue) <= max_queue_depth

(***************************************************************************)
(* C23.  Pipeline backpressure: no queue ever holds more than              *)
(* max_queue_depth items; a producer that finds its queue full drops the   *)
(* new item (the capture thread when its wait ends, the process thread at  *)
(* once, without waiting); and the capture thread always gets from its put *)
(* back to the loop and the camera, whatever the other threads do.         *)
(***************************************************************************)
C23_Backpressure ==
    /\ []QueuesBounded
    /\ [][(pc["capture"] = "put" /\ pc'["capture"] # "put"
              /\ Len(process_queue) = max_queue_depth)
            => (process_queue' = process_queue /\ camera' = Tail(camera))]_vars
    /\ [][(AtProcessFrame /\ frame' = None)
            => /\ pc'["process"] \in {"loop", "failed"}
               /\ Len(action_queue) = max_queue_depth
                     => action_queue' = action_queue
               /\ Len(display_queue) = max_queue_depth
                     => display_queue' = display_queue]_vars
    /\ (pc["capture"] = "put") ~> (pc["capture"] = "loop")

\* the capture thread holds a frame for a full process queue, the process
\* thread not having taken a frame yet
C23_Witness ==
    /\ pc["capture"] = "put"
    /\ Len(process_queue) = max_queue_depth
    /\ pc["process"] \in {"loop", "get"}
    /\ now = EpochMs
    /\ running

\* the call of process_frame comes back, returning or raising: the step of
\* ProcessWork as the program counter of the process thread shows it
ProcessFrameEnds ==
    /\ pc["process"] = "frame"
    /\ \E v \in {"loop", "failed"} : pc' = [pc EXCEPT !["process"] = v]

\* the threads under a scheduler that gives every thread a turn: a thread
\* that can take a step takes one, and a call of process_frame comes back
FairThreads ==
    InitThreads(ThreadFrames, {{}}) /\ [][ThreadsNext]_vars
        /\ WF_vars(MainNext) /\ WF_vars(CaptureNext)
        /\ WF_vars(ProcessLoop \/ ProcessGet) /\ WF_pc(ProcessFrameEnds)
        /\ WF_vars(MouseNext) /\ WF_vars(DisplayNext)

\* every thread has returned
AllStopped == \A th \in Threads : pc[th] \in {"done", "failed"}

(***************************************************************************)
(* C24.  Cooperative cancellation: once the threads are started and the    *)
(* running flag is false, whoever cleared it, every one of the capture,    *)
(* process, mouse-action and display threads eventually returns, whatever  *)
(* the paused flag and the queues hold; and the flag, once false, stays    *)
(* false.                                                                  *)
(***************************************************************************)
C24_Cancellation ==
    /\ (pc["main"] = "join" /\ ~running) ~> AllStopped
    /\ [][(pc["main"] # "start" /\ ~running) => ~running']_vars

\* all four threads have returned while the application was paused and a
\* bundle was still waiting in the action queue
C24_Witness ==
    /\ AllStopped
    /\ ~running
    /\ is_paused
    /\ action_queue # <<>>
    /\ pc["mouse"] = "done"

(***************************************************************************)
(* C25.  Drag events are well nested.  DRAG_START is returned on the       *)
(* frames that take the drag state from HELD to DRAGGING and on no others, *)
(* DRAG_END on the frames that take it from DRAGGING to RELEASED and on no *)
(* others, so the two alternate, DRAG_START first; DRAG_MOVE is returned   *)
(* only by a frame that finds and leaves the state DRAGGING, that is       *)
(* between a DRAG_START and the next DRAG_END; and every frame processed   *)
(* in DRAGGING with the thumb-index pinch still engaged returns DRAG_MOVE. *)
(***************************************************************************)
\* the nesting runs process frames up to EpochMs + NestTicks * TickMs: time
\* for two drags, one after the other
NestTicks == 17

DetectNest == Detect(DragFrames, NestTicks)

SpecNest == InitGD /\ [][DetectNest]_vars

\* the drag events since the first frame of the last thumb-index pinch are
\* the beginning of one drag: DRAG_START, DRAG_MOVEs, DRAG_END
OneDrag ==
    \/ epLog = <<>>
    \/ /\ epLog[1] = "DRAG_START"
       /\ \A i \in 2..Len(epLog) :
              \/ epLog[i] = "DRAG_MOVE"
              \/ epLog[i] = "DRAG_END" /\ i = Len(epLog)

DragStep ==
    /\ gesture' = "DRAG_START"
           <=> (drag_state = "HELD" /\ drag_state' = "DRAGGING")
    /\ gesture' = "DRAG_END"
           <=> (drag_state = "DRAGGING" /\ drag_state' = "RELEASED")
    /\ gesture' = "DRAG_MOVE"
           => (drag_state = "DRAGGING" /\ drag_state' = "DRAGGING")
    /\ (drag_state = "DRAGGING" /\ is_drag_pinch(last_landmarks'[1]))
           => gesture' = "DRAG_MOVE"
    /\ drag_state' = "DRAGGING" => drag_state \in {"HELD", "DRAGGING"}

C25_DragNesting == []OneDrag /\ [][DragStep]_vars

\* a drag that began late enough to follow a whole earlier drag is moving
C25_Witness ==
    /\ drag_state = "DRAGGING"
    /\ gesture = "DRAG_MOVE"
    /\ epLog = <<"DRAG_START", "DRAG_MOVE">>
    /\ epStart >= EpochMs + 9 * TickMs

(***************************************************************************)
(* Runs with dropped frames: the camera delivers a frame every TickMs, and *)
(* detect is handed any of them, up to MaxGap ticks after the last one it  *)
(* was handed; the frames in between never reach it.                       *)
(***************************************************************************)
\* the drop runs process frames up to EpochMs + GapTicks * TickMs
GapTicks == 10

\* the longest time between two processed frames, in ticks
MaxGap == 10

\* the wall clock at the next processed frame of a drop run
GapTimes ==
    {now + k * TickMs : k \in 1..MaxGap} \cap (0..(EpochMs + GapTicks * TickMs))

\* one frame of a drop run handed to GestureDetector.detect
DetectGaps ==
    \E lm \in DragFrames, t \in GapTimes :
        LET s == detect(GDState, lm, t)
        IN  /\ now' = t
            /\ gesture_timers' = s.gesture_timers
            /\ last_landmarks' = s.last_landmarks
            /\ drag_state' = s.drag_state
            /\ drag_start_time' = s.drag_start_time
            /\ last_zoom_dist' = s.last_zoom_dist
            /\ last_scroll_y' = s.last_scroll_y
            /\ last_scroll_x' = s.last_scroll_x
            /\ gesture' = s.gesture
            /\ Observe(lm, t, s.gesture)
            /\ UNCHANGED <<ccVars, ccHist, filtVars, filtHist, plVars>>

SpecGaps == InitGD /\ [][DetectGaps]_vars

(***************************************************************************)
(* C26.  Hold and debounce depend on the wall clock only.  In a run with   *)
(* dropped frames, a thumb-index pinch whose first frame, one or more      *)
(* pinched frames past the hold threshold and release frame are processed  *)
(* returns one DRAG_START and then one DRAG_END; and no event is returned  *)
(* that the run without drops could not return at that time: a click only  *)
(* more than click_debounce_ms after the last click of its type, a         *)
(* DRAG_START only more than drag_hold_ms after the pinch began, a zoom    *)
(* event only more than zoom_debounce_ms after the last one and only for a *)
(* pinch that was still within the hold threshold one frame time before    *)
(* its release frame.                                                      *)
(***************************************************************************)
\* the released pinch reported one drag: one start, moves, one end
DropsKeepDrag ==
    (epStart # 0 /\ ~WasDragPinch /\ epPost >= 1)
        => epLog = Lifecycle(epPost - 1)

\* the event of this frame is one the debounce and hold times allow
DropsKeepDebounce ==
    /\ gesture' \in ClickTypes
           => now' - lastClick[gesture'] > click_debounce_ms
    /\ gesture' = "DRAG_START" => now' - epStart > drag_hold_ms
    /\ gesture' \in ZoomEvents
           => now' - gesture_timers["ZOOM"] > zoom_debounce_ms

\* a zoom event of this frame ends a pinch that had not outlasted the hold
\* threshold one frame time ago
DropsKeepZoomHold ==
    gesture' \in ZoomEvents => now' - TickMs - epStart <= drag_hold_ms

C26_DropsKeepGestures ==
    []DropsKeepDrag /\ [][DropsKeepDebounce /\ DropsKeepZoomHold]_vars

\* a zoom event on the release of a pinch that began, after an earlier
\* frame, more than the hold threshold and two frame times ago
C26_Witness ==
    /\ gesture \in ZoomEvents
    /\ ~WasDragPinch
    /\ epStart > EpochMs + TickMs
    /\ now - epStart > drag_hold_ms + 2 * TickMs

\* what holds of a drop run: the drag of a pinch kept as C26 says, and the
\* times of the clicks, the drag starts and the zoom debounce
C26_TimesButZoomHold == []DropsKeepDrag /\ [][DropsKeepDebounce]_vars

(***************************************************************************)
(* C27.  Scroll is evaluated only when no pinch is active: no frame in     *)
(* which the thumb-index, the index-middle or the middle-ring pair is      *)
(* pinched returns a SCROLL_* event, the frames processed with the         *)
(* thumb-index pinch in HELD included.                                     *)
(***************************************************************************)
\* one of the three pairs of the frame is closer than the pinch threshold
AnyPinch(lm) ==
    \/ is_drag_pinch(lm)
    \/ index_middle_dist(lm) < pinch_thresh
    \/ middle_ring_dist(lm) < pinch_thresh

C27_NoScrollWhilePinched ==
    [][gesture' \in ScrollEvents => ~AnyPinch(Frame')]_vars

\* a frame processed in HELD, the thumb-index pinch begun earlier and still
\* engaged, returned a scroll event
C27_Witness ==
    /\ drag_state = "HELD"
    /\ drag_start_time < now
    /\ is_drag_pinch(Frame)
    /\ gesture \in ScrollEvents

\* what holds: no scroll event for a frame with the index-middle or the
\* middle-ring pair pinched, or processed in DRAGGING
C27_NoScrollWhileClickPinch ==
    [][gesture' \in ScrollEvents
          => /\ index_middle_dist(Frame') >= pinch_thresh
             /\ middle_ring_dist(Frame') >= pinch_thresh
             /\ drag_state # "DRAGGING"]_vars

(***************************************************************************)
(* The scroll runs: a hand that moves on both axes between frames, by more *)
(* than the scroll thresholds or by less, thumb and index-middle open or   *)
(* pinched.                                                                *)
(***************************************************************************)
\* the scroll runs process frames up to EpochMs + ScrollTicks * TickMs
ScrollTicks == 5

\* a displacement of the midpoint below the scroll thresholds
NudgeStep == 8

\* where the midpoint of index and middle can be, on either axis, as an
\* offset from its rest
ScrollOffsets == {0, NudgeStep, MoveStep}

ScrollFrames ==
    {Hand(RestX + ox, RestY + oy, dTI, dIM, 20) :
        ox \in ScrollOffsets, oy \in ScrollOffsets,
        dTI \in {4, 20}, dIM \in {4, 20}}

DetectScroll == Detect(ScrollFrames, ScrollTicks)

SpecScroll == InitGD /\ [][DetectScroll]_vars

(***************************************************************************)
(* C28.  Scroll selection.  On a frame that reaches the scroll branch (a   *)
(* frame was processed before, no click pinch, the drag machine returned   *)
(* no event and is not DRAGGING) with the scroll debounce expired: a       *)
(* vertical displacement of the index-middle midpoint beyond its threshold *)
(* returns SCROLL_DOWN when positive and SCROLL_UP when negative, whatever *)
(* the horizontal displacement; a horizontal displacement beyond its       *)
(* threshold returns SCROLL_RIGHT when positive and SCROLL_LEFT when       *)
(* negative, only when the vertical one is within its threshold.  No       *)
(* scroll event is returned otherwise, none on the first frame, and two    *)
(* scroll events, of either axis, are more than scroll_debounce_ms apart.  *)
(***************************************************************************)
\* the scroll event the rule selects for displacements dy, dx
Selected(dy, dx) ==
    IF Abs(dy) > scroll_delta_y
    THEN (IF dy > 0 THEN "SCROLL_DOWN" ELSE "SCROLL_UP")
    ELSE IF Abs(dx) > scroll_delta_x
    THEN (IF dx > 0 THEN "SCROLL_RIGHT" ELSE "SCROLL_LEFT")
    ELSE "NONE"

ScrollStep ==
    LET first   == last_landmarks = <<>>
        dy      == current_scroll_y(Frame') - current_scroll_y(Frame)
        dx      == current_scroll_x(Frame') - current_scroll_x(Frame)
        expired == now' - lastScroll > scroll_debounce_ms
        reached == /\ SelectedClick(Frame') = "NONE"
                   /\ drag_state' # "DRAGGING"
                   /\ ~DragSpoke'
    IN  /\ first => gesture' \notin ScrollEvents
        /\ (~first /\ reached /\ expired) => gesture' = Selected(dy, dx)
        /\ (~first /\ gesture' \in ScrollEvents)
               => reached /\ expired /\ gesture' = Selected(dy, dx)

ZoomFromHeld ==
    LET d == thumb_index_dist(Frame')
    IN  /\ gesture' \in ZoomEvents
               => /\ drag_state = "HELD" /\ ~is_drag_pinch(Frame')
                  /\ Abs(d - last_zoom_dist) > zoom_delta
                  /\ now' - gesture_timers["ZOOM"] > zoom_debounce_ms
                  /\ gesture' = IF d < last_zoom_dist THEN "ZOOM_IN"
                                                      ELSE "ZOOM_OUT"
        /\ (drag_state = "DRAGGING" /\ ~is_drag_pinch(Frame'))
               => gesture' = "DRAG_END"

\* the zoom event, if any, ends a pinch within the hold threshold that
\* followed a frame with the pair open
ZoomOfShortPinch ==
    gesture' \in ZoomEvents
        => /\ now' - drag_start_time <= drag_hold_ms
           /\ last_zoom_dist # 0

C29_ZoomRule == [][ZoomFromHeld /\ ZoomOfShortPinch]_vars

\* a zoom event for a release found more than the hold threshold after the
\* pinch began, the pinch having followed a frame with the pair open
C29_Witness ==
    /\ gesture \in ZoomEvents
    /\ drag_state = "RELEASED"
    /\ now - drag_start_time > drag_hold_ms
    /\ drag_start_time > EpochMs + TickMs

\* refuted as well: the release of a pinch that the very first frame began,
\* with no open frame before it, returns no ZOOM_OUT
C29_NoBaseline ==
    ~(/\ gesture = "ZOOM_OUT"
      /\ drag_start_time = EpochMs + TickMs
      /\ now - drag_start_time <= drag_hold_ms)

\* what holds of the zoom events
C29_ZoomFromHeld == [][ZoomFromHeld]_vars

(***************************************************************************)
(* C30.  Adaptive baseline.  The open-hand distance the detector tracks    *)
(* for a pair (last_zoom_dist, for thumb and index; it tracks none for the *)
(* other pairs) never decreases in a frame in which the pair is not        *)
(* pinched, is not updated in a frame in which it is pinched, and is above *)
(* a positive noise floor once a frame has been processed; and whether a   *)
(* frame counts as pinched is decided by the ratio of its distance to the  *)
(* tracked one, clamped to [0,2]: equal ratios, equal decisions.           *)
(***************************************************************************)
\* distance / baseline clamped to [0,2], in fixed point
ClampedRatio(d, b) ==
    LET q == (d * FP) \div b
    IN  IF q > 2 * FP THEN 2 * FP ELSE q

\* the distances a thumb-index pair can show, for the comparison of ratios
RatioDists == 1..20

\* the tracked distance is not updated by a pinched frame
FrozenWhilePinched ==
    is_drag_pinch(Frame') => last_zoom_dist' = last_zoom_dist

\* the tracked distance does not decrease in a frame with the pair open
GrowsWhileOpen ==
    ~is_drag_pinch(Frame') => last_zoom_dist' >= last_zoom_dist

\* a frame at the same ratio to its baseline as this one gets this one's
\* pinch decision
RatioDecides ==
    \A d \in RatioDists, b \in RatioDists :
        (/\ last_zoom_dist > 0
         /\ ClampedRatio(d, b)
               = ClampedRatio(thumb_index_dist(Frame'), last_zoom_dist))
            => (is_drag_pinch(Frame') <=> d < pinch_thresh)

C30_AdaptiveBaseline ==
    /\ [](last_landmarks # <<>> => last_zoom_dist > 0)
    /\ [][FrozenWhilePinched /\ GrowsWhileOpen /\ RatioDecides]_vars

\* frames have been processed, the pair pinched in all of them, and the
\* tracked distance is 0
C30_Witness ==
    /\ last_landmarks # <<>>
    /\ last_zoom_dist = 0
    /\ drag_state = "DRAGGING"

\* what holds: a pinched frame leaves the tracked distance as it is
C30_FrozenWhilePinched == [][FrozenWhilePinched]_vars

(***************************************************************************)
(* The re-acquisition runs: a controller in relative mode, and calls of    *)
(* update_position a frame apart or a stale gap apart (no hand was tracked *)
(* in between, so nothing called it).                                      *)
(***************************************************************************)
\* a gap without a tracked hand, ms
StaleMs == 2000

\* the number of calls of a re-acquisition run
StaleCalls == 3

UpdateStale == Update(RelPoints, {FrameMs, StaleMs}, StaleCalls)

SpecStale == InitRelative /\ [][UpdateStale]_vars

\* what _current_pointer_or_center can answer for the controller c
PointerAnswers(c) ==
    {current_pointer_or_center(c, pointer) :
        pointer \in Pointers(c.os, Layouts[display])}

\* the call of this step returned the pointer (or the centre) and seeded
\* the reference position with it and with the sample of the call
SeededFromPointer ==
    /\ pos'[1] \in PointerAnswers(cursor')
    /\ cursor'.last_abs_x = Some(pos'[1][1])
    /\ cursor'.last_abs_y = Some(pos'[1][2])
    /\ cursor'.last_norm_x = Some(NormDen - middle'[1][1])
    /\ cursor'.last_norm_y = Some(middle'[1][2])
    /\ cursor'.filter_x.estimate = Some(pos'[1][1] * FP)
    /\ cursor'.filter_y.estimate = Some(pos'[1][2] * FP)

(***************************************************************************)
(* C31.  Relative-mode seeding: the first call of update_position, and the *)
(* first call after a stale gap, returns the OS pointer position (the      *)
(* desktop centre when the pointer query fails) and seeds the reference    *)
(* position and the filters from it, instead of applying a displacement    *)
(* from the fingertip seen before the gap.                                 *)
(***************************************************************************)
C31_SeedsOnReacquisition ==
    [][(ucalls = 0 \/ perf' - perf >= StaleMs) => SeededFromPointer]_vars

\* two calls, each a stale gap after the one before, and the second one
\* returned a position that is neither a pointer answer nor the centre
C31_Witness ==
    /\ ucalls = 2
    /\ perf = 2 * StaleMs
    /\ pos[1] \notin PointerAnswers(cursor)

\* what holds: the first call seeds
C31_FirstCallSeeds == [][ucalls = 0 => SeededFromPointer]_vars

(***************************************************************************)
(* The probe runs: a controller constructed while every geometry source    *)
(* failed, on a layout whose desktop is not the default, and calls of      *)
(* update_position a refresh interval apart, each source answering or      *)
(* failing independently of the others at every refresh.                   *)
(***************************************************************************)
\* the number of calls of a probe run
ProbeCalls == 3

\* every source failing
NoAnswer == [mons |-> {}, native |-> {}, size |-> None]

\* what the sources can answer on the layout L, each by itself: screeninfo
\* and the OS query the monitors or only the primary one, pyautogui the
\* size of the primary one, or nothing (missing, raising, empty)
ProviderAnswers(L) ==
    [mons : {{}, L, {Primary(L)}}, native : {{}, L, {Primary(L)}},
     size : {None, Some(<<Primary(L).width, Primary(L).height>>)}]

InitProbe ==
    /\ FreshDetector
    /\ IdlePipeline
    /\ IdleFilters
    /\ \E os \in OSNames, relative \in BOOLEAN :
          FreshRun(CursorController(os, relative,
                                    detect_virtual_screen(os, NoAnswer)), 3)

UpdateProbe ==
    /\ ucalls < ProbeCalls
    /\ \E p \in {<<NormDen \div 2, NormDen \div 2>>, <<0, NormDen>>} :
          \E probe \in ProviderAnswers(Layouts[display]),
             pointer \in PointersNow :
             LET t == perf + refresh_ms
                 r == update_position(cursor, p[1], p[2], t,
                                      detect_virtual_screen(cursor.os, probe),
                                      pointer)
             IN  /\ cursor' = r.c
                 /\ pos' = Some(r.out)
                 /\ middle' = Some(p)
                 /\ perf' = t
                 /\ ObserveMove(p)
    /\ ucalls' = ucalls + 1
    /\ UNCHANGED <<display, monitors, locals, ctor, gdVars, histVars,
                   filtVars, filtHist, plVars>>

SpecProbe == InitProbe /\ [][UpdateProbe]_vars

(***************************************************************************)
(* C32.  Geometry probing never fails the caller.  The sources are tried   *)
(* in the order screeninfo, OS query, pyautogui size; the geometry is that *)
(* of the first one that answers, and the default 1920x1080 at (0,0) with  *)
(* zero offset when none does (a source that raises counts as not          *)
(* answering, so nothing escapes); and a probe is made again at every      *)
(* periodic refresh, whatever the one before answered.                     *)
(***************************************************************************)
\* the geometry each source yields by itself on the platform os, None when
\* it does not answer, in the order in which they are to be tried
Providers(os, probe) ==
    <<IF probe.mons = {} THEN None
      ELSE Some(bounding_box(os, probe.mons, TRUE)),
      IF probe.native = {} \/ os \notin {"Windows", "Linux"} THEN None
      ELSE Some(bounding_box(os, probe.native, os = "Linux")),
      IF probe.size = None THEN None
      ELSE Some(Geometry(0, 0, probe.size[1][1], probe.size[1][2], 0, 0))>>

\* the answer of the first source that answers, or the default
FirstSuccess(os, probe) ==
    LET ps == Providers(os, probe)
        ok == {i \in DOMAIN ps : ps[i] # None}
    IN  IF ok = {} THEN Geometry(0, 0, 1920, 1080, 0, 0)
        ELSE ps[SetMin(ok)][1]

\* on every platform and layout and for every answer of the sources, the
\* detected geometry is that of the first source that answers
FirstProviderWins ==
    \A os \in OSNames, d \in DOMAIN Layouts :
        \A probe \in ProviderAnswers(Layouts[d]) :
            detect_virtual_screen(os, probe) = FirstSuccess(os, probe)

\* a call a refresh interval after the last probe probes again and stores
\* what the first answering source says
RefreshProbes ==
    perf' - cursor.last_detect_ts >= refresh_ms
        => /\ cursor'.last_detect_ts = perf'
           /\ \E probe \in ProviderAnswers(Layouts[display]) :
                 GeometryOf(cursor') = FirstSuccess(cursor.os, probe)

C32_ProbeNeverFails == []FirstProviderWins /\ [][RefreshProbes]_vars

\* the controller was constructed on the default geometry, every source
\* failing, and the probe of the first refresh found the two monitors
C32_Witness ==
    /\ ucalls = 1
    /\ cursor.last_detect_ts = refresh_ms
    /\ cursor.screen_width = 3200
    /\ cursor.origin_x = -1920

(***************************************************************************)
(* The layout runs: the desktop is any one or two monitors of two sizes at *)
(* origins left of, above and right of (0,0); screeninfo or the OS query   *)
(* reports them at construction and, the layout having changed or not, at  *)
(* the refresh of an update_position call one interval later.              *)
(***************************************************************************)
\* the most monitors of a layout run
MaxMonitors == 2

\* the number of calls of a layout run
UnionCalls == 1

MonitorRects ==
    {Monitor(x, y, wh[1], wh[2]) :
        x \in {-1920, 0, 1920}, y \in {-1080, 0},
        wh \in {<<1920, 1080>>, <<1280, 1024>>}}

MonitorSets ==
    {M \in SUBSET MonitorRects : M # {} /\ Cardinality(M) <= MaxMonitors}

\* what the sources answer on the monitors M when the source named by
\* source is the one that works
Reported(M, source) ==
    [mons |-> IF source = "screeninfo" THEN M ELSE {},
     native |-> IF source = "native" THEN M ELSE {}, size |-> None]

InitUnion ==
    /\ FreshDetector
    /\ IdlePipeline
    /\ IdleFilters
    /\ \E os \in OSNames, M \in MonitorSets,
          source \in {"screeninfo", "native"} :
          /\ cursor = CursorController(os, FALSE,
                          detect_virtual_screen(os, Reported(M, source)))
          /\ monitors = M
          /\ locals = NoLocals
    /\ display = 1
    /\ perf = 0
    /\ pos = None
    /\ middle = None
    /\ ucalls = 0
    /\ lastSign = <<0, 0>>
    /\ runSign = <<0, 0>>
    /\ ctor = None

UpdateUnion ==
    /\ ucalls < UnionCalls
    /\ \E M \in MonitorSets, source \in {"screeninfo", "native"} :
          LET t == perf + refresh_ms
              p == <<NormDen \div 2, NormDen \div 2>>
              r == update_position(cursor, p[1], p[2], t,
                       detect_virtual_screen(cursor.os, Reported(M, source)),
                       None)
          IN  /\ monitors' = M
              /\ cursor' = r.c
              /\ pos' = Some(r.out)
              /\ middle' = Some(p)
              /\ perf' = t
              /\ ObserveMove(p)
    /\ ucalls' = ucalls + 1
    /\ UNCHANGED <<display, locals, ctor, gdVars, histVars, filtVars, filtHist,
                   plVars>>

SpecUnion == InitUnion /\ [][UpdateUnion]_vars

SwapCalls == 2

\* _maybe_refresh_virtual_screen: the order in which the fields are stored
StoreOrder ==
    <<"origin_x", "origin_y", "screen_width", "screen_height",
      "coord_offset_x", "coord_offset_y">>

\* draw_visualizations: the order in which the fields are read
ReadOrder ==
    <<"screen_width", "screen_height", "origin_x", "coord_offset_x",
      "origin_y", "coord_offset_y">>

\* the geometry screeninfo finds on the layout d
LayoutGeometry(d) ==
    detect_virtual_screen("Linux", Reported(Layouts[d], "screeninfo"))

InitSwap ==
    /\ FreshDetector
    /\ IdleFilters
    /\ action_queue = <<>>
    /\ returned = None
    /\ top = 0
    /\ dcalls = 0
    /\ \E d \in DOMAIN Layouts :
          FreshRun(CursorController("Linux", FALSE, LayoutGeometry(d)), d)
    /\ running = TRUE
    /\ is_paused = FALSE
    /\ pc = [th \in Runners |->
                IF th = "process" THEN "refresh"
                ELSE IF th = "display" THEN "draw" ELSE "done"]
    /\ process_queue = <<>>
    /\ display_queue = <<>>
    /\ camera = <<>>
    /\ missing = {}
    /\ frame = None
    /\ IdleMouse

\* what a step of the swap runs leaves alone
SwapFrame ==
    UNCHANGED <<ctor, gdVars, histVars, filtVars, filtHist, action_queue,
                returned, top, dcalls, running, is_paused, process_queue,
                display_queue, camera, missing, mouseVars, frame>>

\* update_position, the refresh is due: the probe, on the layout of the
\* moment; a changed geometry is about to be stored
SwapProbe ==
    /\ pc["process"] = "refresh"
    /\ ucalls < SwapCalls
    /\ \E d \in DOMAIN Layouts :
          LET t == perf + refresh_ms
              g == LayoutGeometry(d)
          IN  /\ display' = d
              /\ monitors' = Layouts[d]
              /\ perf' = t
              /\ cursor' = [cursor EXCEPT !.last_detect_ts = t]
              /\ IF g # GeometryOf(cursor)
                 THEN /\ locals' = [locals EXCEPT !.g = Some(g), !.stored = 0]
                      /\ pc' = [pc EXCEPT !["process"] = "store"]
                 ELSE /\ locals' = [locals EXCEPT !.g = None]
                      /\ pc' = [pc EXCEPT !["process"] = "move"]
    /\ UNCHANGED <<pos, middle, ucalls, ccHist>>
    /\ SwapFrame

\* _maybe_refresh_virtual_screen: the next field is stored
SwapStore ==
    /\ pc["process"] = "store"
    /\ LET f == StoreOrder[locals.stored + 1]
       IN  /\ cursor' = [cursor EXCEPT ![f] = locals.g[1][f]]
           /\ locals' = [locals EXCEPT !.stored = @ + 1]
           /\ pc' = [pc EXCEPT !["process"] =
                        IF locals.stored + 1 = Len(StoreOrder)
                        THEN "move" ELSE "store"]
    /\ UNCHANGED <<perf, display, monitors, pos, middle, ucalls, ccHist>>
    /\ SwapFrame

\* the rest of the call: the cached position is clipped into a geometry
\* that changed, and the fingertip is mapped
SwapMove ==
    /\ pc["process"] = "move"
    /\ LET p  == <<NormDen \div 2, NormDen \div 2>>
           c1 == IF locals.g # None /\ cursor.last_abs_x # None
                                   /\ cursor.last_abs_y # None
                 THEN LET q == clip_to_bounds(cursor, cursor.last_abs_x[1],
                                              cursor.last_abs_y[1])
                      IN  [cursor EXCEPT !.last_abs_x = Some(q[1]),
                                         !.last_abs_y = Some(q[2])]
                 ELSE cursor
           r  == update_position(c1, p[1], p[2], perf, GeometryOf(c1), None)
       IN  /\ cursor' = r.c
           /\ pos' = Some(r.out)
           /\ middle' = Some(p)
           /\ ObserveMove(p)
    /\ ucalls' = ucalls + 1
    /\ locals' = [locals EXCEPT !.g = None, !.stored = 0]
    /\ pc' = [pc EXCEPT !["process"] = "refresh"]
    /\ UNCHANGED <<perf, display, monitors>>
    /\ SwapFrame

\* draw_visualizations: the next field of the controller is read
DrawRead ==
    /\ pc["display"] = "draw"
    /\ Len(locals.read) < Len(ReadOrder)
    /\ locals' = [locals EXCEPT
                     !.read = Append(@, cursor[ReadOrder[Len(@) + 1]])]
    /\ UNCHANGED <<cursor, perf, display, monitors, pos, middle, ucalls,
                   ccHist, pc>>
    /\ SwapFrame

\* draw_visualizations: the circle is drawn from what was read, and the
\* display thread comes round to the next bundle
DrawCircle ==
    /\ pc["display"] = "draw"
    /\ Len(locals.read) = Len(ReadOrder)
    /\ locals' = [locals EXCEPT !.read = <<>>]
    /\ UNCHANGED <<cursor, perf, display, monitors, pos, middle, ucalls,
                   ccHist, pc>>
    /\ SwapFrame

SpecSwap ==
    InitSwap
        /\ [][SwapProbe \/ SwapStore \/ SwapMove \/ DrawRead
                \/ DrawCircle]_vars

(***************************************************************************)
(* C34.  A refresh that changes the layout is an atomic swap: what the     *)
(* display thread has read of the controller's screen_width,               *)
(* screen_height, origin and offset when it computes the circle is the     *)
(* geometry of one layout, never a mixture of the old and the new one.     *)
(***************************************************************************)
\* the fields of the geometry g in the order in which they are read
ReadOf(g) == [i \in DOMAIN ReadOrder |-> g[ReadOrder[i]]]

C34_AtomicSwap ==
    Len(locals.read) = Len(ReadOrder)
        => \E d \in DOMAIN Layouts : locals.read = ReadOf(LayoutGeometry(d))

\* the display thread read the size of the one-monitor desktop before the
\* refresh stored the two-monitor one, and the origin and offset after
C34_Witness ==
    /\ locals.read = <<1920, 1080, -1920, 1920, 0, 0>>
    /\ pc["process"] \in {"move", "refresh"}

\* a camera that delivers more frames with a hand than the action queue and
\* the action stage hold together
SteadyCamera == [i \in 1..(max_queue_depth + 2) |-> OneHand(21, 90)]

\* the threads with capture and process threads that are scheduled again and
\* again, while the mouse thread may stay in a pointer call for ever (and the
\* display thread in its own calls)
FairDetection ==
    InitRun({SteadyCamera}, {{}}) /\ [][ThreadsNext]_vars
        /\ WF_vars(CaptureNext)
        /\ WF_vars(ProcessLoop \/ ProcessGet)
        /\ WF_pc(ProcessFrameEnds)

\* the mouse thread is inside _execute_actions, in a pointer call
InPointerCall == pc["mouse"] = "execute"

\* the process thread ends its iteration without waiting for either queue
PutsAtOnce ==
    /\ pc'["process"] \in {"loop", "failed"}
    /\ Len(action_queue) = max_queue_depth => action_queue' = action_queue
    /\ Len(display_queue) = max_queue_depth => display_queue' = display_queue

(***************************************************************************)
(* C35.  The action stage is decoupled from detection: while a pointer     *)
(* call of the mouse thread blocks, for however long, the process thread   *)
(* ends each iteration without waiting for the action queue or the display *)
(* queue, it takes every frame that is in the process queue, and the       *)
(* capture thread gets from every read and put back to its loop.           *)
(***************************************************************************)
C35_DetectionDecoupled ==
    /\ [][(InPointerCall /\ AtProcessFrame /\ frame' = None)
            => PutsAtOnce]_vars
    /\ (InPointerCall /\ AtProcessFrame) ~> (pc["process"] # "frame")
    /\ (InPointerCall /\ pc["process"] = "get" /\ process_queue # <<>>)
          ~> AtProcessFrame
    /\ (InPointerCall /\ pc["capture"] \in {"read", "put"})
          ~> (pc["capture"] = "loop")

\* the mouse thread is still in the pointer calls of the first bundle; the
\* process thread has gone through all the frames of the camera since, the
\* action queue took two bundles and the last one was dropped
C35_Witness ==
    /\ InPointerCall
    /\ bundle # None
    /\ sink = <<>>
    /\ Len(action_queue) = max_queue_depth
    /\ dcalls = max_queue_depth + 2
    /\ camera = <<>>
    /\ pc["process"] = "loop"
    /\ pc["capture"] = "loop"
    /\ running

\* a frame in which the tracker finds one confident hand of 21 joints
Seen(lm) == <<[lm |-> lm, confidence |-> 90, joints |-> 21]>>

\* the open hand at rest, and moved by (dx, dy)
OpenAt(dx, dy) == Seen(Hand(RestX + dx, RestY + dy, 20, 20, 20))

\* the hand at rest with the given gaps
Gaps(dTI, dIM, dMR) == Seen(Hand(RestX, RestY, dTI, dIM, dMR))

\* what the camera delivers in the runs of the action stage: the hand moves
\* down, up, right or left; it pinches one pair or both; it pinches thumb
\* and index shortly and opens them half; it pinches them long and opens
GestureCameras ==
    {<<OpenAt(0, 0), OpenAt(0, MoveStep)>>,
     <<OpenAt(0, MoveStep), OpenAt(0, 0)>>,
     <<OpenAt(0, 0), OpenAt(MoveStep, 0)>>,
     <<OpenAt(MoveStep, 0), OpenAt(0, 0)>>,
     <<Gaps(20, 4, 20)>>, <<Gaps(20, 20, 4)>>, <<Gaps(20, 4, 4)>>,
     <<Gaps(20, 20, 20), Gaps(4, 20, 20), Gaps(10, 20, 20)>>,
     <<Gaps(10, 20, 20), Gaps(4, 20, 20), Gaps(20, 20, 20)>>,
     [i \in 1..10 |-> IF i < 10 THEN Gaps(4, 20, 20) ELSE Gaps(20, 20, 20)]}

\* the threads while the user presses no key: the application runs on, never
\* paused, so that the mouse thread never gets to its sleep
QuietNext ==
    \/ MainStart \/ MainJoin
    \/ CaptureOpen \/ CaptureLoop \/ CaptureRead \/ CapturePut
    \/ ProcessLoop \/ ProcessGet \/ ProcessWork
    \/ MouseLoop \/ MouseGet \/ MouseExecute
    \/ DisplayLoop \/ DisplayPoll({"none"})

SpecGestures == InitRun(GestureCameras, {{}}) /\ [][QuietNext]_vars

\* the mouse thread has executed the bundle it took last: sink holds the
\* pointer calls made for it
Executed == bundle # None /\ pc["mouse"] # "execute"

\* the pyautogui function an event is to reach, "" for an event without one
SinkFunction(g) ==
    IF g \in {"LEFT_CLICK", "RIGHT_CLICK", "MIDDLE_CLICK"} THEN "click"
    ELSE IF g = "DRAG_START" THEN "mouseDown"
    ELSE IF g = "DRAG_END" THEN "mouseUp"
    ELSE IF g \in {"ZOOM_IN", "ZOOM_OUT", "SCROLL_UP", "SCROLL_DOWN"}
    THEN "scroll"
    ELSE IF g \in {"SCROLL_LEFT", "SCROLL_RIGHT"} THEN "hscroll"
    ELSE ""

\* the button of a click event
SinkButton(g) ==
    IF g = "LEFT_CLICK" THEN "left"
    ELSE IF g = "RIGHT_CLICK" THEN "right" ELSE "middle"

\* the calls made for the event g at p are the move to p, then the call of g
ReachesSink(g, p) ==
    /\ sink # <<>>
    /\ sink[1] = Call("moveTo", p)
    /\ SinkFunction(g) # ""
          => /\ Len(sink) = 2
             /\ sink[2][1] = SinkFunction(g)
             /\ SinkFunction(g) = "click" => sink[2][2] = <<SinkButton(g)>>

(***************************************************************************)
(* C36.  Every event executed by the action stage reaches the pointer sink *)
(* as its action: the calls made for a bundle are moveTo(x, y) and then,   *)
(* for a click, click with its button; for DRAG_START, mouseDown; for      *)
(* DRAG_END, mouseUp; for a zoom or a vertical scroll, scroll; for a       *)
(* horizontal scroll, hscroll.                                             *)
(***************************************************************************)
C36_EveryEventReachesSink ==
    Executed => ReachesSink(bundle[1][1], bundle[1][2][1])

\* the bundle of a SCROLL_DOWN has been executed: the pointer was moved, and
\* that is all
C36_Witness ==
    /\ Executed
    /\ bundle[1][1] = "SCROLL_DOWN"
    /\ sink = <<Call("moveTo", bundle[1][2][1])>>
    /\ gesture = "SCROLL_DOWN"
    /\ action_queue = <<>>

\* C36, what holds: the clicks, DRAG_START and the zooms reach the sink
C36_HandledEvents ==
    (Executed /\ bundle[1][1] \in {"LEFT_CLICK", "RIGHT_CLICK", "MIDDLE_CLICK",
                                    "DRAG_START", "ZOOM_IN", "ZOOM_OUT"})
        => ReachesSink(bundle[1][1], bundle[1][2][1])

\* a DRAG_END bundle is on its way to the sink: in the action queue, or
\* taken by the mouse thread and not executed yet
EndPending ==
    \/ \E i \in DOMAIN action_queue : action_queue[i][1] = "DRAG_END"
    \/ pc["mouse"] = "execute" /\ bundle[1][1] = "DRAG_END"

\* the button is down at the sink only while the detector is in the drag, or
\* the DRAG_END it returned is on its way
ClosedOrPending == drag_active => (drag_state = "DRAGGING" \/ EndPending)

\* the mouse thread executes a DRAG_START only with the button up
DownAfterUp ==
    (pc["mouse"] = "execute" /\ pc'["mouse"] # "execute"
        /\ bundle[1][1] = "DRAG_START") => ~drag_active

\* a DRAG_END that detect returns while the button is down at the sink is
\* put into the action queue
EndDelivered ==
    (AtProcessFrame /\ dcalls' = dcalls + 1 /\ pc'["process"] = "loop"
        /\ returned'.gesture = "DRAG_END" /\ drag_active)
      => /\ action_queue' # <<>>
         /\ action_queue'[Len(action_queue')][1] = "DRAG_END"
         /\ Len(action_queue') = Len(action_queue) + 1

(***************************************************************************)
(* C37.  In the multithreaded pipeline a drag is always closed at the      *)
(* sink: once the mouse thread has executed a DRAG_START, the DRAG_END     *)
(* that the detector returns for that drag gets to the mouse thread and is *)
(* executed, so that the button is never left down when the action queue   *)
(* overflows; and a DRAG_START is executed only with the button up.        *)
(***************************************************************************)
C37_DragClosedAtSink ==
    /\ [][EndDelivered]_vars
    /\ []ClosedOrPending
    /\ [][DownAfterUp]_vars

\* the mouse thread has executed the DRAG_START and the button is down; the
\* two DRAG_MOVE bundles that followed fill the action queue; detect has
\* returned DRAG_END for the last frame of the camera, and that bundle is
\* not in the queue
C37_Witness ==
    /\ drag_active
    /\ pc["mouse"] # "execute"
    /\ returned # None
    /\ returned.gesture = "DRAG_END"
    /\ drag_state = "RELEASED"
    /\ Len(action_queue) = max_queue_depth
    /\ \A i \in DOMAIN action_queue : action_queue[i][1] = "DRAG_MOVE"
    /\ camera = <<>>
    /\ process_queue = <<>>
    /\ frame = None

\* C37, what holds: mouseUp is called only with the button down
C37_UpAfterDown ==
    [][(sink' # sink /\ \E i \in DOMAIN sink' : sink'[i][1] = "mouseUp")
         => drag_active /\ ~drag_active']_vars

\* the step in which the mouse thread makes the pointer calls of a bundle
MouseExecutes == pc["mouse"] = "execute" /\ pc'["mouse"] # "execute"

(***************************************************************************)
(* C38.  Pause is respected by the action stage: however the display       *)
(* thread, which toggles is_paused on the 'p' key, and the mouse thread    *)
(* interleave, no pointer call is made while is_paused is set, and no      *)
(* bundle that was produced while is_paused was set is executed later.     *)
(***************************************************************************)
C38_PauseRespected == [][MouseExecutes => (~is_paused /\ ~taken)]_vars

\* the control is not paused (any more), and the pointer calls of a bundle
\* that the process thread queued during the pause have been made
C38_Witness ==
    /\ Executed
    /\ taken
    /\ sink # <<>>
    /\ ~is_paused
    /\ running

\* C38, what holds: the mouse thread takes no bundle in the iteration in
\* which it found is_paused set
C38_PausedIterationSleeps ==
    [][(pc["mouse"] = "loop" /\ pc'["mouse"] # "loop" /\ running /\ is_paused)
         => pc'["mouse"] = "sleep"]_vars

\* no click of any type was returned within click_debounce_ms before t
NoClickShortlyBefore(t) ==
    \A c \in ClickTypes :
       lastClick[c] = 0 \/ t - lastClick[c] > click_debounce_ms

(***************************************************************************)
(* C39.  One pinch gesture yields one click: a click event of any type is  *)
(* returned only more than click_debounce_ms after the last click event of *)
(* any type; in particular no LEFT_CLICK or RIGHT_CLICK follows a          *)
(* MIDDLE_CLICK within click_debounce_ms when the three-finger pinch opens *)
(* one pair at a time.                                                     *)
(***************************************************************************)
C39_OnePinchOneClick ==
    [][(now' > now /\ gesture' \in ClickTypes) => NoClickShortlyBefore(now')]_vars

\* RIGHT_CLICK for a frame in which index and middle have opened while
\* middle and ring are still pinched, one frame after the MIDDLE_CLICK of
\* the three-finger pinch
C39_Witness ==
    /\ gesture = "RIGHT_CLICK"
    /\ lastClick["RIGHT_CLICK"] = now
    /\ lastClick["MIDDLE_CLICK"] = now - TickMs
    /\ ~all_three_pinch(Frame)
    /\ middle_ring_dist(Frame) < pinch_thresh
    /\ index_middle_dist(Frame) >= pinch_thresh

\* C39, what holds: two click events of the same type are more than
\* click_debounce_ms apart
C39_SameTypeDebounced ==
    [][(now' > now /\ gesture' \in ClickTypes)
         => (lastClick[gesture'] = 0
               \/ now' - lastClick[gesture'] > click_debounce_ms)]_vars
====
